---------------------------- MODULE Spec2Model ----------------------------
(***************************************************************************)
(* Model of the header/schema resolution and record building of the GEA    *)
(* spreadsheet ingest handlers (src/api/ingest-gea.js and its later        *)
(* revision src/unnamed/part_000), of the header snapshot file they share, *)
(* and of the tag de-duplication of the animal-list parsers.               *)
(*                                                                         *)
(* JavaScript strings are sequences of one-character strings, so that      *)
(* trimming, regular-expression tests, JSON text and name suffixing are    *)
(* computed character by character.  A JavaScript value is a record        *)
(* [t, s]: t is the typeof-like kind and s the characters of String(v).    *)
(***************************************************************************)
EXTENDS Integers, Sequences, FiniteSets, TLC

VARIABLES
    env,          \* process.env.GEA_HEADERS, a string
    perm,         \* what the file system allows on SNAPSHOT_PATH: "rw", "ro", "none"
    snapshotFile, \* the file at SNAPSHOT_PATH: [exists, text]
    calls,        \* per request slot: the handler invocation's locals and position
    lastWrite,    \* history: the header list of the latest completed write to the file
    probe         \* harness for the pure functions: [fn, arg, res, done]

vars == <<env, perm, snapshotFile, calls, lastWrite, probe>>

-----------------------------------------------------------------------------
(* Characters and strings *)

Digits == {"0", "1", "2", "3", "4", "5", "6", "7", "8", "9"}
UpperSeq == <<"A","B","C","D","E","F","G","H","I","J","K","L","M",
              "N","O","P","Q","R","S","T","U","V","W","X","Y","Z">>
LowerSeq == <<"a","b","c","d","e","f","g","h","i","j","k","l","m",
              "n","o","p","q","r","s","t","u","v","w","x","y","z">>
Upper == {UpperSeq[i] : i \in 1..26}
Lower == {LowerSeq[i] : i \in 1..26}

IsDigit(c) == c \in Digits
\* [A-Z] under the i flag
IsAlpha(c) == c \in Upper \cup Lower
\* \s, as far as the characters of the model go
IsSpace(c) == c \in {" ", "\t", "\n", "\r"}

\* String.prototype.toLowerCase / toUpperCase, one character
LowerChar(c) == IF c \in Upper THEN LowerSeq[CHOOSE i \in 1..26 : UpperSeq[i] = c] ELSE c
UpperChar(c) == IF c \in Lower THEN UpperSeq[CHOOSE i \in 1..26 : LowerSeq[i] = c] ELSE c
toLowerCase(s) == [i \in 1..Len(s) |-> LowerChar(s[i])]

RECURSIVE trimStart(_)
trimStart(s) == IF s # <<>> /\ IsSpace(Head(s)) THEN trimStart(Tail(s)) ELSE s
RECURSIVE trimEnd(_)
trimEnd(s) == IF s # <<>> /\ IsSpace(s[Len(s)]) THEN trimEnd(SubSeq(s, 1, Len(s) - 1)) ELSE s
\* String.prototype.trim
trim(s) == trimEnd(trimStart(s))

\* String.prototype.includes
includes(s, sub) == \E i \in 1..(Len(s) - Len(sub) + 1) : SubSeq(s, i, i + Len(sub) - 1) = sub

\* /\D/.test(s)
HasNonDigit(s) == \E i \in 1..Len(s) : ~IsDigit(s[i])

DigitSeq == <<"0", "1", "2", "3", "4", "5", "6", "7", "8", "9">>
RECURSIVE IntToStr(_)
\* String(n) of a non-negative integer, as in the template literals `${idx}`, `${i+1}`
IntToStr(n) == IF n < 10 THEN <<DigitSeq[n + 1]>>
               ELSE IntToStr(n \div 10) \o <<DigitSeq[(n % 10) + 1]>>

-----------------------------------------------------------------------------
(* JavaScript values *)

Null == [t |-> "null", s |-> <<>>]
Str(s) == [t |-> "string", s |-> s]
Num(s) == [t |-> "number", s |-> s]
Bool(b) == [t |-> "boolean", s |-> IF b THEN <<"t","r","u","e">> ELSE <<"f","a","l","s","e">>]

\* String(v ?? '')
StringOrEmpty(v) == IF v.t = "null" THEN <<>> ELSE v.s

\* normHdr = s => String(s ?? '').trim()
normHdr(v) == trim(StringOrEmpty(v))

-----------------------------------------------------------------------------
(* Header detection *)

\* /^([A-Z]{2}\d{6,}|LT\d+|DE\d+)/i.test(v): a prefix match
TagRegex(v) ==
    \/ /\ Len(v) >= 8
       /\ IsAlpha(v[1]) /\ IsAlpha(v[2])
       /\ \A i \in 3..8 : IsDigit(v[i])
    \/ /\ Len(v) >= 3
       /\ UpperChar(v[1]) = "L" /\ UpperChar(v[2]) = "T"
       /\ IsDigit(v[3])
    \/ /\ Len(v) >= 3
       /\ UpperChar(v[1]) = "D" /\ UpperChar(v[2]) = "E"
       /\ IsDigit(v[3])

\* looksLikeTag with the DE alternative of the pattern left out
looksLikeTagNoDE(value) ==
    IF value.t # "string" THEN FALSE
    ELSE LET v == trim(value.s) IN
         /\ v # <<>>
         /\ \/ /\ Len(v) >= 8
               /\ IsAlpha(v[1]) /\ IsAlpha(v[2])
               /\ \A i \in 3..8 : IsDigit(v[i])
            \/ /\ Len(v) >= 3
               /\ UpperChar(v[1]) = "L" /\ UpperChar(v[2]) = "T"
               /\ IsDigit(v[3])

looksLikeTag(value) ==
    IF value.t # "string" THEN FALSE
    ELSE LET v == trim(value.s) IN
         IF v = <<>> THEN FALSE ELSE TagRegex(v)

\* detectHasHeader with more than half of the cells asked for
detectHasHeaderMoreThanHalf(firstRow) ==
    IF firstRow = <<>> THEN FALSE
    ELSE IF looksLikeTag(Str(StringOrEmpty(firstRow[1]))) THEN FALSE
    ELSE LET NotNull(c) == c.t # "null"
             Strish(c) == c.t = "string" /\ HasNonDigit(c.s)
             cells == SelectSeq(firstRow, NotNull)
             strish == SelectSeq(cells, Strish)
         IN  IF cells = <<>> THEN FALSE
             ELSE 2 * Len(strish) > Len(cells)

detectHasHeader(firstRow) ==
    IF firstRow = <<>> THEN FALSE
    ELSE IF looksLikeTag(Str(StringOrEmpty(firstRow[1]))) THEN FALSE
    ELSE LET NotNull(c) == c.t # "null"
             Strish(c) == c.t = "string" /\ HasNonDigit(c.s)
             cells == SelectSeq(firstRow, NotNull)
             strish == SelectSeq(cells, Strish)
         IN  IF cells = <<>> THEN FALSE
             ELSE 2 * Len(strish) >= Len(cells)

-----------------------------------------------------------------------------
(* Header de-duplication (part_000) *)

S_Col == <<"C", "o", "l">>

\* `${base}_${idx}`
Suffixed(base, idx) == base \o <<"_">> \o IntToStr(idx)

\* const base = normHdr(h) || 'Col'
BaseName(h) == IF normHdr(Str(h)) # <<>> THEN normHdr(Str(h)) ELSE S_Col

\* seen[base] once the map callback has run for headers[i]: the callback sets it to 1
\* at the first occurrence of the base and adds 1 at each later one
SeenCount(headers, i) ==
    Cardinality({j \in 1..i : BaseName(headers[j]) = BaseName(headers[i])})

\* headers.map(h => ...): the base at its first occurrence, `${base}_${idx}` after
dedupeHeaders(headers) ==
    [i \in 1..Len(headers) |->
        IF SeenCount(headers, i) = 1 THEN BaseName(headers[i])
        ELSE Suffixed(BaseName(headers[i]), SeenCount(headers, i))]

-----------------------------------------------------------------------------
(* The snapshot file: JSON.stringify(headers, null, 2) and JSON.parse *)

\* a JSON string literal; the names of the model hold no character that JSON escapes
QuoteJSON(s) == <<"\"">> \o s \o <<"\"">>

RECURSIVE StringifyItems(_)
StringifyItems(headers) ==
    IF Len(headers) = 1 THEN <<" ", " ">> \o QuoteJSON(headers[1]) \o <<"\n">>
    ELSE <<" ", " ">> \o QuoteJSON(Head(headers)) \o <<",", "\n">> \o StringifyItems(Tail(headers))

\* JSON.stringify(headers, null, 2) of an array of strings
JSONstringify(headers) ==
    IF headers = <<>> THEN <<"[", "]">>
    ELSE <<"[", "\n">> \o StringifyItems(headers) \o <<"]">>

RECURSIVE SkipWs(_, _)
\* the first position >= i of text that holds no JSON whitespace
SkipWs(text, i) == IF i <= Len(text) /\ IsSpace(text[i]) THEN SkipWs(text, i + 1) ELSE i

RECURSIVE ScanString(_, _)
\* the position of the quote closing a string literal whose body starts at i; 0 if none
ScanString(text, i) ==
    IF i > Len(text) THEN 0
    ELSE IF text[i] = "\"" THEN i
    ELSE IF text[i] \in {"\\", "\n", "\t", "\r"} THEN 0
    ELSE ScanString(text, i + 1)

RECURSIVE ScanDigits(_, _)
ScanDigits(text, i) == IF i <= Len(text) /\ IsDigit(text[i]) THEN ScanDigits(text, i + 1) ELSE i

FailJSON == [ok |-> FALSE, v |-> Null, next |-> 0]

\* one scalar at position i: a string without escapes, an unsigned integer, or null
ParseScalar(text, i) ==
    IF i > Len(text) THEN FailJSON
    ELSE IF text[i] = "\"" THEN
        LET j == ScanString(text, i + 1)
        IN  IF j = 0 THEN FailJSON
            ELSE [ok |-> TRUE, v |-> Str(SubSeq(text, i + 1, j - 1)), next |-> j + 1]
    ELSE IF IsDigit(text[i]) THEN
        LET j == ScanDigits(text, i)
        IN  IF text[i] = "0" /\ j > i + 1 THEN FailJSON
            ELSE [ok |-> TRUE, v |-> Num(SubSeq(text, i, j - 1)), next |-> j]
    ELSE IF i + 3 <= Len(text) /\ SubSeq(text, i, i + 3) = <<"n", "u", "l", "l">>
         THEN [ok |-> TRUE, v |-> Null, next |-> i + 4]
    ELSE FailJSON

RECURSIVE ParseItems(_, _, _)
\* the elements of an array from position i (after "[" or ","), acc the ones read
ParseItems(text, i, acc) ==
    LET e == ParseScalar(text, SkipWs(text, i))
    IN  IF ~e.ok THEN [ok |-> FALSE, items |-> <<>>, next |-> 0]
        ELSE LET j == SkipWs(text, e.next)
             IN  IF j > Len(text) THEN [ok |-> FALSE, items |-> <<>>, next |-> 0]
                 ELSE IF text[j] = "," THEN ParseItems(text, j + 1, Append(acc, e.v))
                 ELSE IF text[j] = "]"
                      THEN [ok |-> TRUE, items |-> Append(acc, e.v), next |-> j + 1]
                 ELSE [ok |-> FALSE, items |-> <<>>, next |-> 0]

\* JSON.parse(text) for the texts the file can hold: a scalar, an array of scalars
\* or {}; [ok] is FALSE where JSON.parse throws a SyntaxError
JSONparse(text) ==
    LET i == SkipWs(text, 1)
        bad == [ok |-> FALSE, isArray |-> FALSE, items |-> <<>>]
        AtEnd(j) == SkipWs(text, j) > Len(text)
    IN  IF i > Len(text) THEN bad
        ELSE IF text[i] = "[" THEN
            LET k == SkipWs(text, i + 1)
            IN  IF k <= Len(text) /\ text[k] = "]"
                THEN (IF AtEnd(k + 1) THEN [ok |-> TRUE, isArray |-> TRUE, items |-> <<>>]
                      ELSE bad)
                ELSE LET r == ParseItems(text, i + 1, <<>>)
                     IN  IF r.ok /\ AtEnd(r.next)
                         THEN [ok |-> TRUE, isArray |-> TRUE, items |-> r.items]
                         ELSE bad
        ELSE IF text[i] = "{" THEN
            LET k == SkipWs(text, i + 1)
            IN  IF k <= Len(text) /\ text[k] = "}" /\ AtEnd(k + 1)
                THEN [ok |-> TRUE, isArray |-> FALSE, items |-> <<>>]
                ELSE bad
        ELSE LET e == ParseScalar(text, i)
             IN  IF e.ok /\ AtEnd(e.next)
                 THEN [ok |-> TRUE, isArray |-> FALSE, items |-> <<>>]
                 ELSE bad

\* arr.map(normHdr)
MapNormHdr(arr) == [i \in 1..Len(arr) |-> normHdr(arr[i])]

NoHeaders == [some |-> FALSE, v |-> <<>>]
SomeHeaders(h) == [some |-> TRUE, v |-> h]

\* loadSnapshotHeaders without the arr.length test
loadSnapshotHeadersAnyArray(file, p) ==
    IF p = "none" \/ ~file.exists THEN NoHeaders
    ELSE LET arr == JSONparse(file.text)
         IN  IF arr.ok /\ arr.isArray THEN SomeHeaders(MapNormHdr(arr.items))
             ELSE NoHeaders

\* fs.readFileSync throws when the file is missing or unreadable, JSON.parse when
\* the text is no JSON; both are caught and give null
loadSnapshotHeaders(file, p) ==
    IF p = "none" \/ ~file.exists THEN NoHeaders
    ELSE LET arr == JSONparse(file.text)
         IN  IF arr.ok /\ arr.isArray /\ Len(arr.items) > 0
             THEN SomeHeaders(MapNormHdr(arr.items))
             ELSE NoHeaders

\* the open of flag 'r+': nothing is truncated
OpenKeep(file) == [exists |-> TRUE, text |-> file.text]

\* fsp.writeFile opens the file with flag 'w': created or truncated to length 0
OpenTruncate(file) == [exists |-> TRUE, text |-> <<>>]

\* the write of the data at the descriptor's position 0: bytes of the file past the
\* data's length stay
WriteAtStart(file, data) ==
    [exists |-> TRUE,
     text |-> data \o SubSeq(file.text, Len(data) + 1, Len(file.text))]

-----------------------------------------------------------------------------
(* Field normalizers *)

AllDigits(s) == \A i \in 1..Len(s) : IsDigit(s[i])

RECURSIVE Split(_, _)
\* String.prototype.split(sep) for a one-character separator
Split(s, sep) ==
    IF \A i \in 1..Len(s) : s[i] # sep THEN <<s>>
    ELSE LET i == CHOOSE k \in 1..Len(s) : s[k] = sep /\ \A j \in 1..(k - 1) : s[j] # sep
         IN  <<SubSeq(s, 1, i - 1)>> \o Split(SubSeq(s, i + 1, Len(s)), sep)

\* String.prototype.padStart(2, '0')
PadStart2(s) == IF Len(s) < 2 THEN <<"0">> \o s ELSE s

\* /^\d{4}-\d{2}-\d{2}$/
IsIsoDate(s) ==
    /\ Len(s) = 10
    /\ s[5] = "-" /\ s[8] = "-"
    /\ \A i \in {1, 2, 3, 4, 6, 7, 9, 10} : IsDigit(s[i])

\* /^(\d{2})\.(\d{2})\.(\d{4})$/
IsDottedDate(s) ==
    /\ Len(s) = 10
    /\ s[3] = "." /\ s[6] = "."
    /\ \A i \in {1, 2, 4, 5, 7, 8, 9, 10} : IsDigit(s[i])

DottedToIso(s) == SubSeq(s, 7, 10) \o <<"-">> \o SubSeq(s, 4, 5) \o <<"-">> \o SubSeq(s, 1, 2)

\* /^(\d{1,2})\/(\d{1,2})\/(\d{2,4})$/
IsSlashDate(s) ==
    LET p == Split(s, "/")
    IN  /\ Len(p) = 3
        /\ \A i \in 1..3 : AllDigits(p[i])
        /\ Len(p[1]) \in 1..2 /\ Len(p[2]) \in 1..2 /\ Len(p[3]) \in 2..4

SlashToIso(s) ==
    LET p == Split(s, "/")
        yy == IF Len(p[3]) = 2 THEN <<"2", "0">> \o p[3] ELSE p[3]
    IN  yy \o <<"-">> \o PadStart2(p[1]) \o <<"-">> \o PadStart2(p[2])

\* cells are never Date instances: the sheet is read with raw: false
toISODate(val) ==
    IF val.t = "null" THEN Null
    ELSE LET s == trim(val.s)
         IN  IF s = <<>> THEN Null
             ELSE IF IsIsoDate(s) THEN Str(s)
             ELSE IF IsDottedDate(s) THEN Str(DottedToIso(s))
             ELSE IF IsSlashDate(s) THEN Str(SlashToIso(s))
             ELSE Str(s)

\* /^(\d{1,2}):(\d{2})$/
IsTime(s) ==
    LET p == Split(s, ":")
    IN  /\ Len(p) = 2
        /\ AllDigits(p[1]) /\ AllDigits(p[2])
        /\ Len(p[1]) \in 1..2 /\ Len(p[2]) = 2

toTime(val) ==
    IF val.t = "null" THEN Null
    ELSE LET s == trim(val.s)
         IN  IF s = <<>> THEN Null
             ELSE IF IsTime(s)
                  THEN LET p == Split(s, ":") IN Str(PadStart2(p[1]) \o <<":">> \o p[2])
             ELSE Str(s)

RECURSIVE RemoveSpaces(_)
\* .replace(/\s/g, '')
RemoveSpaces(s) ==
    IF s = <<>> THEN <<>>
    ELSE (IF IsSpace(Head(s)) THEN <<>> ELSE <<Head(s)>>) \o RemoveSpaces(Tail(s))

\* .replace(',', '.'): the first comma only
ReplaceFirstComma(s) ==
    IF \A i \in 1..Len(s) : s[i] # "," THEN s
    ELSE LET i == CHOOSE k \in 1..Len(s) : s[k] = "," /\ \A j \in 1..(k - 1) : s[j] # ","
         IN  [s EXCEPT ![i] = "."]

RECURSIVE StripLeadingZeros(_)
StripLeadingZeros(s) ==
    IF Len(s) > 1 /\ Head(s) = "0" THEN StripLeadingZeros(Tail(s)) ELSE s
RECURSIVE StripTrailingZeros(_)
StripTrailingZeros(s) ==
    IF s # <<>> /\ s[Len(s)] = "0" THEN StripTrailingZeros(SubSeq(s, 1, Len(s) - 1)) ELSE s

NaN == [finite |-> FALSE, repr |-> <<"N", "a", "N">>]

\* Number(s) for a string without whitespace: '' is 0; a signed decimal literal
\* without exponent is its value, written as String(n) writes it; anything else is
\* NaN (the cells of the model hold no exponent, hex or Infinity literal)
NumberJS(s) ==
    IF s = <<>> THEN [finite |-> TRUE, repr |-> <<"0">>]
    ELSE LET neg == Head(s) = "-"
             body == IF Head(s) \in {"+", "-"} THEN Tail(s) ELSE s
             p == Split(body, ".")
         IN  IF /\ Len(p) \in 1..2
                /\ \A i \in 1..Len(p) : AllDigits(p[i])
                /\ \E i \in 1..Len(p) : p[i] # <<>>
             THEN LET int == StripLeadingZeros(IF p[1] = <<>> THEN <<"0">> ELSE p[1])
                      frac == IF Len(p) = 2 THEN StripTrailingZeros(p[2]) ELSE <<>>
                      abs == IF frac = <<>> THEN int ELSE int \o <<".">> \o frac
                  IN  [finite |-> TRUE,
                       repr |-> IF neg /\ abs # <<"0">> THEN <<"-">> \o abs ELSE abs]
             ELSE NaN

toNum(val) ==
    IF val.t = "null" THEN Null
    ELSE IF val.t = "number" THEN val
    ELSE LET s == ReplaceFirstComma(RemoveSpaces(trim(val.s)))
             n == NumberJS(s)
         IN  IF n.finite THEN Num(n.repr) ELSE Null

S_taip == <<"t", "a", "i", "p">>
S_ne == <<"n", "e">>

toBoolLT(val) ==
    IF val.t = "null" THEN Null
    ELSE LET s == toLowerCase(trim(val.s))
         IN  IF s = S_taip THEN Bool(TRUE)
             ELSE IF s = S_ne THEN Bool(FALSE)
             ELSE Null

\* ingest-gea.js: the per-cell normalization; of the three blank forms the em dash
\* is left out, no cell of the model holds it
normCell(v) ==
    IF v.t = "null" THEN Null
    ELSE IF v.t = "string" THEN
        LET s == trim(v.s)
        IN  IF s = <<>> \/ s = <<"-">> THEN Null
            ELSE IF IsIsoDate(s) THEN Str(s)
            ELSE IF IsDottedDate(s) THEN Str(DottedToIso(s))
            ELSE Str(s)
    ELSE v

-----------------------------------------------------------------------------
(* Row objects: a JavaScript object is the sequence of its [k, v] properties in *)
(* insertion order (the names of the model are no array indices, which a       *)
(* JavaScript object would list first)                                         *)

Undefined == [t |-> "undefined", s |-> <<>>]

ObjHas(o, k) == \E i \in 1..Len(o) : o[i].k = k
ObjGet(o, k) == IF ObjHas(o, k) THEN o[CHOOSE i \in 1..Len(o) : o[i].k = k].v ELSE Undefined
\* o[k] = v: an existing property keeps its place, a new one goes last
ObjSet(o, k, v) ==
    IF ObjHas(o, k)
    THEN LET at == CHOOSE i \in 1..Len(o) : o[i].k = k
         IN  SubSeq(o, 1, at - 1) \o <<[k |-> k, v |-> v]>> \o SubSeq(o, at + 1, Len(o))
    ELSE Append(o, [k |-> k, v |-> v])
\* Object.keys(o)
ObjKeys(o) == [i \in 1..Len(o) |-> o[i].k]

\* a value used as a condition
Truthy(v) ==
    CASE v.t \in {"null", "undefined"} -> FALSE
      [] v.t = "string" -> v.s # <<>>
      [] v.t = "number" -> v.s # <<"0">>
      [] OTHER -> v.s = <<"t", "r", "u", "e">>

S_karves_nr == <<"k", "a", "r", "v", "e", "s", " ", "n", "r">>
S_kaklo_nr == <<"k", "a", "k", "l", "o", " ", "n", "r">>
S_statusas == <<"s", "t", "a", "t", "u", "s", "a", "s">>
S_grupe == <<"g", "r", "u", "p", "e">>
S_pieno_vidurkis == <<"p", "i", "e", "n", "o", " ", "v", "i", "d", "u", "r", "k", "i", "s">>
S_melzimo_data == <<"m", "e", "l", "z", "i", "m", "o", " ", "d", "a", "t", "a">>
S_melzimo_laikas == <<"m", "e", "l", "z", "i", "m", "o", " ", "l", "a", "i", "k", "a", "s">>
S_pieno_kiekis == <<"p", "i", "e", "n", "o", " ", "k", "i", "e", "k", "i", "s">>
S_dalyvauja_pieno_gamyboje == <<"d", "a", "l", "y", "v", "a", "u", "j", "a", " ", "p", "i", "e", "n", "o", " ", "g", "a", "m", "y", "b", "o", "j", "e">>
S_apsiversiavo == <<"a", "p", "s", "i", "v", "e", "r", "s", "i", "a", "v", "o">>
S_laktacijos_dienos == <<"l", "a", "k", "t", "a", "c", "i", "j", "o", "s", " ", "d", "i", "e", "n", "o", "s">>
S_apseklinimo_diena == <<"a", "p", "s", "e", "k", "l", "i", "n", "i", "m", "o", " ", "d", "i", "e", "n", "a">>
S_tag_no == <<"t", "a", "g", "_", "n", "o">>
S_data == <<"d", "a", "t", "a">>
S_laikas == <<"l", "a", "i", "k", "a", "s">>

numericKeys ==
    <<S_pieno_vidurkis,
      S_pieno_kiekis, Suffixed(S_pieno_kiekis, 2), Suffixed(S_pieno_kiekis, 3),
      Suffixed(S_pieno_kiekis, 4), Suffixed(S_pieno_kiekis, 5),
      S_laktacijos_dienos, S_kaklo_nr, S_grupe>>

\* the tag alias: if (out['karves nr']) out.tag_no = String(out['karves nr']).trim() || null
TagAlias(out) ==
    LET v == ObjGet(out, S_karves_nr)
    IN  IF Truthy(v)
        THEN ObjSet(out, S_tag_no, IF trim(v.s) # <<>> THEN Str(trim(v.s)) ELSE Null)
        ELSE out

\* the body of the loop over Object.keys(out), for one property
NormDateTime(prop) ==
    LET lk == toLowerCase(prop.k)
        v1 == IF includes(lk, S_data) \/ lk = S_apsiversiavo \/ lk = S_apseklinimo_diena
              THEN toISODate(prop.v) ELSE prop.v
        v2 == IF includes(lk, S_laikas) THEN toTime(v1) ELSE v1
    IN  [k |-> prop.k, v |-> v2]

\* for (const k of numericKeys) if (k in out) out[k] = toNum(out[k]): the keys of
\* numericKeys differ, so each property named there is converted once, in place
NormNumbers(out, keys) ==
    [i \in 1..Len(out) |->
        IF \E n \in 1..Len(keys) : keys[n] = out[i].k
        THEN [k |-> out[i].k, v |-> toNum(out[i].v)]
        ELSE out[i]]

normalizeRow(obj) ==
    LET o1 == TagAlias(obj)
        o2 == [i \in 1..Len(o1) |-> NormDateTime(o1[i])]
        o3 == IF ObjHas(o2, S_dalyvauja_pieno_gamyboje)
              THEN ObjSet(o2, S_dalyvauja_pieno_gamyboje,
                          toBoolLT(ObjGet(o2, S_dalyvauja_pieno_gamyboje)))
              ELSE o2
    IN  NormNumbers(o3, numericKeys)

-----------------------------------------------------------------------------
(* Configuration of the handlers *)

BUILTIN_FALLBACK ==
    <<S_karves_nr, S_kaklo_nr, S_statusas, S_grupe, S_pieno_vidurkis,
      S_melzimo_data, S_melzimo_laikas, S_pieno_kiekis,
      S_melzimo_data, S_melzimo_laikas, S_pieno_kiekis,
      S_melzimo_data, S_melzimo_laikas, S_pieno_kiekis,
      S_melzimo_data, S_melzimo_laikas, S_pieno_kiekis,
      S_melzimo_data, S_melzimo_laikas, S_pieno_kiekis,
      S_dalyvauja_pieno_gamyboje, S_apsiversiavo, S_laktacijos_dienos,
      S_apseklinimo_diena>>

\* parts.map(s => s.trim())
MapTrim(parts) == [i \in 1..Len(parts) |-> trim(parts[i])]

\* (process.env.GEA_HEADERS || '').split(',').map(s => s.trim()).filter(Boolean)
FALLBACK_FROM_ENV(envstr) ==
    LET NonEmpty(s) == s # <<>>
    IN  SelectSeq(MapTrim(Split(envstr, ",")), NonEmpty)

-----------------------------------------------------------------------------
(* The handler's synchronous computations *)

\* list.map(normHdr) on a list of strings
MapNormHdrStr(list) == [i \in 1..Len(list) |-> normHdr(Str(list[i]))]

\* headers.some(Boolean)
SomeNonEmpty(headers) == \E i \in 1..Len(headers) : headers[i] # <<>>

RECURSIVE MaxRowLen(_)
\* Math.max(...rows.map(r => r.length))
MaxRowLen(rows) ==
    IF rows = <<>> THEN 0
    ELSE LET m == MaxRowLen(Tail(rows))
         IN  IF Len(Head(rows)) > m THEN Len(Head(rows)) ELSE m

\* Array.from({ length: maxLen }, (_, i) => `Col_${i+1}`), `Col${i+1}` in ingest-gea.js
SyntheticHeaders(ver, n) ==
    [i \in 1..n |-> IF ver = "p0" THEN Suffixed(S_Col, i) ELSE S_Col \o IntToStr(i)]

\* the header list of a document whose first row is a header
HeaderRowNames(ver, firstRow) ==
    IF ver = "p0" THEN dedupeHeaders(MapNormHdr(firstRow))
    ELSE MapNormHdr(firstRow)

\* FallbackNames with the environment's list tried before the snapshot
FallbackNamesEnvFirst(ver, loaded, envstr, rows) ==
    LET fromEnv == FALLBACK_FROM_ENV(envstr)
        headers ==
            IF Len(fromEnv) > 0 THEN MapNormHdrStr(fromEnv)
            ELSE IF loaded.some THEN loaded.v
            ELSE IF ver = "p0" THEN dedupeHeaders(BUILTIN_FALLBACK)
            ELSE MapNormHdrStr(BUILTIN_FALLBACK)
    IN  IF ver = "p0" THEN dedupeHeaders(headers) ELSE headers

\* the header list of a headerless document: the chain of ||, then the synthetic
\* names, then (part_000) the de-duplication
FallbackNames(ver, loaded, envstr, rows) ==
    LET fromEnv == FALLBACK_FROM_ENV(envstr)
        chain ==
            IF loaded.some THEN loaded
            ELSE IF Len(fromEnv) > 0 THEN SomeHeaders(MapNormHdrStr(fromEnv))
            ELSE IF Len(BUILTIN_FALLBACK) > 0
                 THEN SomeHeaders(IF ver = "p0" THEN dedupeHeaders(BUILTIN_FALLBACK)
                                  ELSE MapNormHdrStr(BUILTIN_FALLBACK))
            ELSE NoHeaders
        headers == IF chain.some THEN chain.v
                   ELSE SyntheticHeaders(ver, MaxRowLen(rows))
    IN  IF ver = "p0" THEN dedupeHeaders(headers) ELSE headers

\* ingest-gea.js alignRow; part_000 slices and pads to the same effect
alignRow(row, len) == [i \in 1..len |-> IF i <= Len(row) THEN row[i] ELSE Null]

\* const obj = {}; for (let i = 0; i < H; i++) obj[headers[i]] = r[i]: a name has
\* the place of its first assignment and the value of its last
FillObj(headers, r) ==
    LET H == Len(headers)
        IsFirst(i) == \A j \in 1..(i - 1) : headers[j] # headers[i]
        first == SelectSeq([i \in 1..H |-> i], IsFirst)
        Last(k) == CHOOSE i \in 1..H :
                       headers[i] = k /\ \A j \in (i + 1)..H : headers[j] # k
    IN  [n \in 1..Len(first) |->
            [k |-> headers[first[n]], v |-> r[Last(headers[first[n]])]]]

\* the record of one data row
BuildRecord(ver, headers, row) ==
    LET r == alignRow(row, Len(headers))
    IN  IF ver = "p0" THEN normalizeRow(FillObj(headers, r))
        ELSE FillObj(headers, [i \in 1..Len(r) |-> normCell(r[i])])

\* res.status(200).json({ columns, count, rows })
Success(ver, headers, rows, dataStartIdx) ==
    LET data == SubSeq(rows, dataStartIdx + 1, Len(rows))
        out == [i \in 1..Len(data) |-> BuildRecord(ver, headers, data[i])]
    IN  [status |-> 200, columns |-> headers, count |-> Len(out), rows |-> out]

Failure(code) == [status |-> code, columns |-> <<>>, count |-> 0, rows |-> <<>>]

-----------------------------------------------------------------------------
(* Inputs: the grids parseExcelBuffer can return (sheet_to_json with header: 1, *)
(* raw: false, defval: null gives rows of equal width whose cells are strings  *)
(* or null), the requests, the environment and the file system at start        *)

C_LT1 == Str(<<"L", "T", "1">>)
C_LT2 == Str(<<"L", "T", "2">>)
C_5 == Str(<<"5">>)
C_7 == Str(<<"7">>)
C_x == Str(<<"x">>)
C_y == Str(<<"y">>)
C_a == Str(<<"a">>)
C_a_2 == Str(<<"a", "_", "2">>)
C_blank == Str(<<" ">>)
C_karves_nr == Str(S_karves_nr)
C_melzimo_data == Str(S_melzimo_data)
C_date == Str(<<"0", "1", ".", "0", "2", ".", "2", "0", "2", "4">>)

GHdrXY == << <<C_x, C_y>>, <<C_LT1, C_5>> >>
GHdrDup == << <<C_x, C_x>>, <<C_LT1, C_5>> >>
GHdrColl == << <<C_a, C_a_2, C_a>>, <<C_LT1, C_5, C_7>> >>
GHdrBlank == << <<C_blank, C_blank>>, <<C_LT1, C_5>> >>
GHdrKarv == << <<C_karves_nr, C_melzimo_data>>, <<C_LT1, C_date>> >>
GData3 == << <<C_LT1, C_5, C_7>> >>
GData2 == << <<C_LT1, C_5>>, <<C_LT2, Null>> >>
GDigits == << <<C_5, C_7>> >>
GEmpty == << >>

GridPool == {GHdrXY, GHdrDup, GHdrColl, GHdrBlank, GHdrKarv, GData3, GData2, GDigits, GEmpty}

Versions == {"gea", "p0"}

\* a request: the method, whether a body was sent, and the rows the upload holds
Post(ver, grid) == [ver |-> ver, method |-> "POST", body |-> "xlsx", rows |-> grid]
ReqPool ==
    {Post(ver, g) : ver \in Versions, g \in GridPool}
    \cup {[ver |-> ver, method |-> "GET", body |-> "xlsx", rows |-> GEmpty] : ver \in Versions}
    \cup {[ver |-> ver, method |-> "POST", body |-> "empty", rows |-> GEmpty] : ver \in Versions}

\* the requests of the concurrent specification
ReqPoolConc == {Post(ver, g) : ver \in Versions, g \in {GHdrXY, GHdrColl, GData3}}

EnvPool == {<<>>, <<"p", ",", "q">>, <<" ", ",">>}
PermPool == {"rw", "ro", "none"}

NoFile == [exists |-> FALSE, text |-> <<>>]
FileOf(text) == [exists |-> TRUE, text |-> text]
InitFiles ==
    {NoFile,
     FileOf(<<"[">>),
     FileOf(<<"{", "}">>),
     FileOf(<<"[", "]">>),
     FileOf(JSONstringify(<<<<"x">>, <<"y">>>>))}

NCalls == 2
Slots == 1..NCalls

NoReq == [ver |-> "none", method |-> "none", body |-> "none", rows |-> <<>>]
NoResp == Failure(0)
IdleCall ==
    [pc |-> "idle", req |-> NoReq, hasHeader |-> FALSE, loaded |-> NoHeaders,
     headers |-> <<>>, resp |-> NoResp]

NoProbe == [fn |-> "none", arg |-> <<>>, res |-> <<>>, done |-> FALSE]

-----------------------------------------------------------------------------
(* The handler as steps between its awaits *)

\* AwaitsSave with the save moved out of the header branch
AwaitsSaveAlways(hasHeader, headers) == SomeNonEmpty(headers)

\* whether the handler awaits saveSnapshotHeaders before it builds the rows:
\* if (detectHasHeader(rows[0])) { ...; if (headers.some(Boolean)) await save... }
AwaitsSave(hasHeader, headers) == hasHeader /\ SomeNonEmpty(headers)

\* from the request to the first await on the snapshot write, or to the response
handlerBegin(c, req) ==
    /\ calls[c].pc = "idle"
    /\ LET rows == req.rows
           call == [IdleCall EXCEPT !.req = req]
           Reject(code) == [call EXCEPT !.pc = "done", !.resp = Failure(code)]
       IN  IF req.method # "POST" THEN calls' = [calls EXCEPT ![c] = Reject(405)]
           ELSE IF req.body = "empty" THEN calls' = [calls EXCEPT ![c] = Reject(500)]
           ELSE IF rows = <<>> THEN calls' = [calls EXCEPT ![c] = Reject(400)]
           ELSE LET hasHeader == detectHasHeader(rows[1])
                    loaded == IF hasHeader THEN NoHeaders
                              ELSE loadSnapshotHeaders(snapshotFile, perm)
                    headers == IF hasHeader THEN HeaderRowNames(req.ver, rows[1])
                               ELSE FallbackNames(req.ver, loaded, env, rows)
                    dataStartIdx == IF hasHeader THEN 1 ELSE 0
                IN  calls' = [calls EXCEPT ![c] =
                        IF AwaitsSave(hasHeader, headers)
                        THEN [call EXCEPT !.pc = "open", !.hasHeader = hasHeader,
                                          !.loaded = loaded, !.headers = headers]
                        ELSE [call EXCEPT !.pc = "done", !.hasHeader = hasHeader,
                                          !.loaded = loaded, !.headers = headers,
                                          !.resp = Success(req.ver, headers, rows,
                                                           dataStartIdx)]]
    /\ UNCHANGED <<env, perm, snapshotFile, lastWrite, probe>>

\* saveSnapshotHeaders: fsp.writeFile opens the file; a failure is caught
saveOpen(c) ==
    /\ calls[c].pc = "open"
    /\ IF perm = "rw"
       THEN /\ snapshotFile' = OpenTruncate(snapshotFile)
            /\ calls' = [calls EXCEPT ![c].pc = "write"]
       ELSE /\ snapshotFile' = snapshotFile
            /\ calls' = [calls EXCEPT ![c].pc = "resume"]
    /\ UNCHANGED <<env, perm, lastWrite, probe>>

\* saveSnapshotHeaders: the data is written through the open descriptor
saveWrite(c) ==
    /\ calls[c].pc = "write"
    /\ snapshotFile' = WriteAtStart(snapshotFile, JSONstringify(calls[c].headers))
    /\ lastWrite' = SomeHeaders(calls[c].headers)
    /\ calls' = [calls EXCEPT ![c].pc = "resume"]
    /\ UNCHANGED <<env, perm, probe>>

\* after the await: the row objects and the response
handlerResume(c) ==
    /\ calls[c].pc = "resume"
    /\ calls' = [calls EXCEPT ![c].pc = "done",
                              ![c].resp = Success(calls[c].req.ver, calls[c].headers,
                                                  calls[c].req.rows,
                                                  IF calls[c].hasHeader THEN 1 ELSE 0)]
    /\ UNCHANGED <<env, perm, snapshotFile, lastWrite, probe>>

\* the slot takes the next request
nextRequest(c) ==
    /\ calls[c].pc = "done"
    /\ calls' = [calls EXCEPT ![c] = IdleCall]
    /\ UNCHANGED <<env, perm, snapshotFile, lastWrite, probe>>

InitStore ==
    /\ env \in EnvPool
    /\ perm \in PermPool
    /\ snapshotFile \in InitFiles
    /\ calls = [c \in Slots |-> IdleCall]
    /\ lastWrite = NoHeaders
    /\ probe = NoProbe

\* requests handled concurrently, one per slot
Init == InitStore
Next ==
    \E c \in Slots :
        \/ \E req \in ReqPoolConc : handlerBegin(c, req)
        \/ saveOpen(c)
        \/ saveWrite(c)
        \/ handlerResume(c)
Spec == Init /\ [][Next]_vars

\* requests handled one at a time
NextSeq ==
    \/ \E req \in ReqPool : handlerBegin(1, req)
    \/ saveOpen(1)
    \/ saveWrite(1)
    \/ handlerResume(1)
    \/ nextRequest(1)
SpecSeq == InitStore /\ [][NextSeq]_vars

-----------------------------------------------------------------------------
(* De-duplication of parsed animal rows by tag *)

\* the row pushed for one match of the row pattern, as far as the filter reads it:
\* tag_no: tag || null (route.ts), tag (extractpdf.js); age_months: Number(age)
rowOfMatch(m) ==
    [tag_no |-> IF m.tag # <<>> THEN Str(m.tag) ELSE Null,
     age_months |-> IF m.age # <<>> THEN Num(NumberJS(m.age).repr) ELSE Null]

RECURSIVE pushRows(_)
pushRows(matches) ==
    IF matches = <<>> THEN <<>> ELSE <<rowOfMatch(Head(matches))>> \o pushRows(Tail(matches))

RECURSIVE filterTagged(_, _)
\* route.ts: out.filter(r => { if (!r.tag_no) return false; if (seen.has(key)) return
\* false; seen.add(key); return true; })
filterTagged(rows, seen) ==
    IF rows = <<>> THEN <<>>
    ELSE LET r == Head(rows)
         IN  IF ~Truthy(r.tag_no) THEN filterTagged(Tail(rows), seen)
             ELSE IF r.tag_no \in seen THEN filterTagged(Tail(rows), seen)
             ELSE <<r>> \o filterTagged(Tail(rows), seen \cup {r.tag_no})

RECURSIVE filterUnseen(_, _)
\* extractpdf.js: rows.filter(r => !seen.has(r.tag_no) && seen.add(r.tag_no))
filterUnseen(rows, seen) ==
    IF rows = <<>> THEN <<>>
    ELSE LET r == Head(rows)
         IN  IF r.tag_no \in seen THEN filterUnseen(Tail(rows), seen)
             ELSE <<r>> \o filterUnseen(Tail(rows), seen \cup {r.tag_no})

\* uniqueRows without the filter
uniqueRowsKeepAll(variant, matches) == pushRows(matches)

\* the rows parseAnimalsFromText returns for the matches of its row pattern
uniqueRows(variant, matches) ==
    IF variant = "route" THEN filterTagged(pushRows(matches), {})
    ELSE filterUnseen(pushRows(matches), {})

-----------------------------------------------------------------------------
(* The pure functions applied to inputs drawn from bounded sets *)

SeqsUpTo(S, n) == UNION {[1..k -> S] : k \in 0..n}

MaxHdrLen == 3
HdrNamePool == {<<"a">>, <<"a", "_", "2">>, <<"a", "_", "3">>, <<"b">>, <<>>}

InitDedupeHeaders ==
    /\ env = <<>> /\ perm = "rw" /\ snapshotFile = NoFile
    /\ calls = [c \in Slots |-> IdleCall] /\ lastWrite = NoHeaders
    /\ \E h \in SeqsUpTo(HdrNamePool, MaxHdrLen) :
           probe = [fn |-> "dedupeHeaders", arg |-> h, res |-> <<>>, done |-> FALSE]

applyDedupeHeaders ==
    /\ probe.fn = "dedupeHeaders" /\ ~probe.done
    /\ probe' = [probe EXCEPT !.res = dedupeHeaders(probe.arg), !.done = TRUE]
    /\ UNCHANGED <<env, perm, snapshotFile, calls, lastWrite>>

SpecDedupeHeaders == InitDedupeHeaders /\ [][applyDedupeHeaders]_vars

MaxDetectRow == 2
DetectCellPool ==
    {Null,
     Str(<<"L", "T", "1">>),
     Str(<<" ", "d", "e", "7">>),
     Str(<<"A", "B", "1", "2", "3", "4", "5", "6">>),
     Str(<<"A", "B", "1", "2", "3", "4", "5">>),
     Str(<<"L", "T">>),
     Str(<<"n", "r">>),
     Str(<<"1", "2">>),
     Str(<<" ">>)}

InitDetect ==
    /\ env = <<>> /\ perm = "rw" /\ snapshotFile = NoFile
    /\ calls = [c \in Slots |-> IdleCall] /\ lastWrite = NoHeaders
    /\ \E r \in SeqsUpTo(DetectCellPool, MaxDetectRow) :
           probe = [fn |-> "detectHasHeader", arg |-> r, res |-> FALSE, done |-> FALSE]

applyDetect ==
    /\ probe.fn = "detectHasHeader" /\ ~probe.done
    /\ probe' = [probe EXCEPT !.res = detectHasHeader(probe.arg), !.done = TRUE]
    /\ UNCHANGED <<env, perm, snapshotFile, calls, lastWrite>>

SpecDetect == InitDetect /\ [][applyDetect]_vars

MaxMatches == 3
\* what the row patterns capture: a tag (DE or LT and digits) and the age digits
MatchPool ==
    {[tag |-> tg, age |-> a] : tg \in {<<"L", "T", "1">>, <<"D", "E", "2">>},
                               a \in {<<"1">>, <<"2">>}}

InitUnique ==
    /\ env = <<>> /\ perm = "rw" /\ snapshotFile = NoFile
    /\ calls = [c \in Slots |-> IdleCall] /\ lastWrite = NoHeaders
    /\ \E variant \in {"route", "extractpdf"}, m \in SeqsUpTo(MatchPool, MaxMatches) :
           probe = [fn |-> variant, arg |-> m, res |-> <<>>, done |-> FALSE]

applyUnique ==
    /\ probe.fn \in {"route", "extractpdf"} /\ ~probe.done
    /\ probe' = [probe EXCEPT !.res = uniqueRows(probe.fn, probe.arg), !.done = TRUE]
    /\ UNCHANGED <<env, perm, snapshotFile, calls, lastWrite>>

SpecUnique == InitUnique /\ [][applyUnique]_vars

-----------------------------------------------------------------------------
(* Properties *)

Done(c) == calls[c].pc = "done"
\* a call that answered 200 for a document in which no header was detected
HeaderlessOk(c) == Done(c) /\ calls[c].resp.status = 200 /\ ~calls[c].hasHeader
\* a call that answered 200 for a document whose first row was taken as the header
HeaderOk(c) == Done(c) /\ calls[c].resp.status = 200 /\ calls[c].hasHeader

\* the list of names the snapshot file holds, whoever may read it
Persisted ==
    IF ~snapshotFile.exists THEN NoHeaders
    ELSE LET arr == JSONparse(snapshotFile.text)
         IN  IF arr.ok /\ arr.isArray THEN SomeHeaders(MapNormHdr(arr.items)) ELSE NoHeaders

NoDuplicates(names) == \A i, j \in 1..Len(names) : i # j => names[i] # names[j]

\* C1: every Record of a successful response has exactly the Schema's field names
\* (the returned columns) as its keys, in the Schema's order
C1_RecordKeysAreSchema ==
    \A c \in Slots :
        (Done(c) /\ calls[c].resp.status = 200) =>
            \A i \in 1..Len(calls[c].resp.rows) :
                ObjKeys(calls[c].resp.rows[i]) = calls[c].resp.columns

\* C2: header disambiguation gives the first occurrence of a (non-empty) name the
\* bare name, every later occurrence a suffixed name, and the result holds no
\* duplicates
C2_DisambiguatedNamesUnique ==
    (probe.fn = "dedupeHeaders" /\ probe.done) =>
        LET h == probe.arg
            r == probe.res
            Earlier(i) == \E j \in 1..(i - 1) : h[j] = h[i]
        IN  /\ Len(r) = Len(h)
            /\ \A i \in 1..Len(h) : (h[i] # <<>> /\ ~Earlier(i)) => r[i] = h[i]
            /\ \A i \in 1..Len(h) :
                   (h[i] # <<>> /\ Earlier(i)) =>
                       \E n \in 2..Len(h) : r[i] = h[i] \o <<"_">> \o IntToStr(n)
            /\ NoDuplicates(r)

\* the identity-tag shape, after leading blanks: two letters and at least six
\* digits, or LT or DE (in either case) and a digit
TagShaped(s) ==
    \E k \in 0..Len(s) :
        /\ \A i \in 1..k : s[i] = " "
        /\ LET At(i) == IF k + i <= Len(s) THEN s[k + i] ELSE "" IN
           \/ /\ At(1) \in Upper \cup Lower /\ At(2) \in Upper \cup Lower
              /\ \A i \in 3..8 : At(i) \in Digits
           \/ /\ <<At(1), At(2)>> \in {<<"L", "T">>, <<"l", "t">>, <<"L", "t">>, <<"l", "T">>,
                                       <<"D", "E">>, <<"d", "e">>, <<"D", "e">>, <<"d", "E">>}
              /\ At(3) \in Digits

\* C3: a first row whose first cell has the identity-tag shape is never taken as a
\* header, whatever its other cells hold
C3_TagFirstCellNoHeader ==
    (/\ probe.fn = "detectHasHeader" /\ probe.done
     /\ Len(probe.arg) > 0
     /\ probe.arg[1].t = "string" /\ TagShaped(probe.arg[1].s))
        => probe.res = FALSE

\* the tag rule decided: without it the row (all its cells text with a non-digit)
\* would be a header
C3_Witness ==
    /\ probe.fn = "detectHasHeader" /\ probe.done
    /\ Len(probe.arg) = 2
    /\ TagShaped(probe.arg[1].s)
    /\ probe.arg[2].t = "string" /\ HasNonDigit(probe.arg[2].s)
    /\ probe.res = FALSE

\* the first available source of names for a headerless document
FirstAvailableSource(ver, rows) ==
    LET snap == loadSnapshotHeaders(snapshotFile, perm)
        supplied == FALLBACK_FROM_ENV(env)
    IN  IF snap.some THEN snap.v
        ELSE IF supplied # <<>> THEN supplied
        ELSE IF BUILTIN_FALLBACK # <<>> THEN BUILTIN_FALLBACK
        ELSE [i \in 1..MaxRowLen(rows) |-> S_Col \o <<"_">> \o IntToStr(i)]

CompleteLists ==
    {HeaderRowNames(r.ver, r.rows[1]) : r \in {q \in ReqPoolConc : detectHasHeader(q.rows[1])}}
    \cup {<<<<"x">>, <<"y">>>>}

\* C6: once all concurrent calls have finished, the snapshot is the complete header
\* list of the call that wrote last, and no reader ever obtained a list that is not
\* one call's complete list
C6_LastWriteWins ==
    /\ ((\A c \in Slots : Done(c)) /\ lastWrite.some) => Persisted = lastWrite
    /\ \A c \in Slots : calls[c].loaded.some => calls[c].loaded.v \in CompleteLists

\* the forms under which a cell may appear in a Record
CellForms(v) == {v, normCell(v), toISODate(v), toTime(v), toNum(v), toBoolLT(v)}

\* C7: with a snapshot in use for a headerless document, each input row yields one
\* Record, which holds every non-null cell of the row
C7_StaleSnapshotKeepsCells ==
    (HeaderlessOk(1) /\ calls[1].loaded.some) =>
        LET rows == calls[1].req.rows
            out == calls[1].resp.rows
        IN  /\ Len(out) = Len(rows)
            /\ \A i \in 1..Len(rows) : \A j \in 1..Len(rows[i]) :
                   rows[i][j].t # "null" =>
                       \E k \in 1..Len(out[i]) :
                           /\ out[i][k].v \in CellForms(rows[i][j])
                           /\ out[i][k].v.t # "null"

\* C8: the snapshot file changes only in a step of a call that detected a header;
\* a call without detected header, or rejected for having no rows, leaves it as it was
C8_OnlyHeaderCallsWrite ==
    [][snapshotFile' # snapshotFile =>
           \E c \in Slots :
               /\ calls'[c] # calls[c]
               /\ calls[c].hasHeader
               /\ calls[c].req.rows # <<>>]_vars

\* a headerless call has answered and the file still holds what a header call wrote
C8_Witness ==
    /\ HeaderlessOk(1)
    /\ lastWrite.some
    /\ snapshotFile.text = JSONstringify(lastWrite.v)

\* the store holds no usable snapshot: missing, unreadable, no JSON, no list, or an
\* empty list
StoreUnusable ==
    \/ ~snapshotFile.exists
    \/ perm = "none"
    \/ snapshotFile.text \in {<<"[">>, <<"{", "}">>, <<"[", "]">>}

\* C9: when the store holds no usable snapshot, a headerless document is answered
\* with success and with the names of the next source: the supplied list if
\* non-empty, else the built-in list
C9_AbsentSnapshotFallsThrough ==
    \A c \in Slots :
        (/\ Done(c) /\ ~calls[c].hasHeader
         /\ calls[c].req.method = "POST" /\ calls[c].req.body = "xlsx"
         /\ calls[c].req.rows # <<>>
         /\ StoreUnusable)
            => /\ ~calls[c].loaded.some
               /\ calls[c].resp.status = 200
               /\ calls[c].resp.columns # <<>>
               /\ LET next == IF FALLBACK_FROM_ENV(env) # <<>> THEN FALLBACK_FROM_ENV(env)
                              ELSE BUILTIN_FALLBACK
                  IN  calls[c].resp.columns \in {next, dedupeHeaders(next)}
               /\ calls[c].resp.count = Len(calls[c].req.rows)

\* a headerless document answered while the file holds an empty list
C9_Witness ==
    /\ HeaderlessOk(1)
    /\ snapshotFile.exists /\ perm # "none"
    /\ snapshotFile.text = <<"[", "]">>
    /\ calls[1].resp.columns # <<>>

\* the index in rows of the first row with the tag of rows[i]
FirstWithTag(rows, tg) == CHOOSE i \in 1..Len(rows) :
    rows[i].tag_no = tg /\ \A j \in 1..(i - 1) : rows[j].tag_no # tg

\* C10: the output holds exactly one row per distinct non-null tag, namely the
\* first one with that tag, in the order of first occurrence, and no row whose tag
\* is null
C10_FirstRowPerTag ==
    (probe.fn \in {"route", "extractpdf"} /\ probe.done) =>
        LET rows == pushRows(probe.arg)
            out == probe.res
            tags == {rows[i].tag_no : i \in 1..Len(rows)} \ {Null}
        IN  /\ \A k \in 1..Len(out) : out[k].tag_no # Null
            /\ {out[k].tag_no : k \in 1..Len(out)} = tags
            /\ Len(out) = Cardinality(tags)
            /\ \A k \in 1..Len(out) : out[k] = rows[FirstWithTag(rows, out[k].tag_no)]
            /\ \A k, l \in 1..Len(out) :
                   k < l => FirstWithTag(rows, out[k].tag_no) < FirstWithTag(rows, out[l].tag_no)

\* a later row with an already seen tag and another age was removed
C10_Witness ==
    /\ probe.fn \in {"route", "extractpdf"} /\ probe.done
    /\ Len(probe.arg) = 3 /\ Len(probe.res) = 2
    /\ probe.arg[1].tag = probe.arg[3].tag
    /\ probe.arg[1].age # probe.arg[3].age

-----------------------------------------------------------------------------
(* The three-report workbook (src/api/extract-automatic-file.js): the rows of  *)
(* the first sheet are cut into three sections at the marker rows and each     *)
(* section is mapped onto its column list.  The column names are never taken   *)
(* apart, so they are plain strings.                                           *)

AT1_COLS ==
    <<"cow_number", "ear_number", "cow_state", "group_number", "pregnant_since",
      "lactation_days", "inseminated_at", "pregnant_days", "next_pregnancy_date",
      "days_until_waiting_pregnancy">>

AT2_COLS_NO_D ==
    <<"cow_number", "genetic_worth", "blood_line", "avg_milk_prod_weight",
      "produce_milk", "last_milking_date", "last_milking_time", "last_milking_weight",
      "milking_date_1", "milking_time_1", "milking_weight_1",
      "milking_date_2", "milking_time_2", "milking_weight_2",
      "milking_date_3", "milking_time_3", "milking_weight_3",
      "milking_date_4", "milking_time_4", "milking_weight_4",
      "milking_date_5", "milking_time_5", "milking_weight_5",
      "milking_date_6", "milking_time_6", "milking_weight_6",
      "milking_date_7", "milking_time_7", "milking_weight_7",
      "milking_date_8", "milking_time_8", "milking_weight_8",
      "milking_date_9", "milking_time_9", "milking_weight_9">>

AT2_COLS_WITH_D ==
    <<"cow_number", "genetic_worth", "blood_line", "unused_d", "avg_milk_prod_weight",
      "produce_milk", "last_milking_date", "last_milking_time", "last_milking_weight",
      "milking_date_1", "milking_time_1", "milking_weight_1",
      "milking_date_2", "milking_time_2", "milking_weight_2",
      "milking_date_3", "milking_time_3", "milking_weight_3",
      "milking_date_4", "milking_time_4", "milking_weight_4",
      "milking_date_5", "milking_time_5", "milking_weight_5",
      "milking_date_6", "milking_time_6", "milking_weight_6",
      "milking_date_7", "milking_time_7", "milking_weight_7",
      "milking_date_8", "milking_time_8", "milking_weight_8",
      "milking_date_9", "milking_time_9", "milking_weight_9">>

AT3_COLS ==
    <<"cow_number", "teat_missing_right_back", "teat_missing_back_left",
      "teat_missing_front_left", "teat_missing_front_right", "insemination_count",
      "bull_1", "bull_2", "bull_3", "lactation_number">>

\* v == null || String(v).trim() === ""
IsBlankCell(v) == v.t = "null" \/ trim(v.s) = <<>>

isRowEmpty(row) == Len(row) = 0 \/ \A i \in 1..Len(row) : IsBlankCell(row[i])

RECURSIVE JoinSpace(_)
\* parts.join(" ")
JoinSpace(parts) ==
    IF parts = <<>> THEN <<>>
    ELSE IF Len(parts) = 1 THEN parts[1]
    ELSE parts[1] \o <<" ">> \o JoinSpace(Tail(parts))

rowToString(row) ==
    LET NonEmpty(s) == s # <<>>
        cells == [i \in 1..Len(row) |-> IF row[i].t = "null" THEN <<>> ELSE trim(row[i].s)]
    IN  toLowerCase(JoinSpace(SelectSeq(cells, NonEmpty)))

\* findMarkerIndex without the lower-casing of the row text and of the marker
findMarkerIndexCaseSensitive(rows, marker) ==
    LET Text(row) ==
            LET NonEmpty(s) == s # <<>>
                cells == [i \in 1..Len(row) |->
                             IF row[i].t = "null" THEN <<>> ELSE trim(row[i].s)]
            IN  JoinSpace(SelectSeq(cells, NonEmpty))
        hit == {i \in 1..Len(rows) : includes(Text(rows[i]), marker)}
    IN  IF hit = {} THEN -1
        ELSE (CHOOSE i \in hit : \A j \in hit : i <= j) - 1

\* the index from 0 of the first row whose text holds the marker, or -1
findMarkerIndex(rows, marker) ==
    LET m == toLowerCase(marker)
        hit == {i \in 1..Len(rows) : includes(rowToString(rows[i]), m)}
    IN  IF hit = {} THEN -1
        ELSE (CHOOSE i \in hit : \A j \in hit : i <= j) - 1

\* Array.prototype.slice(a, b) for 0 <= a; the items at the indices a .. b-1 from 0
slice(arr, a, b) == SubSeq(arr, a + 1, IF b < Len(arr) THEN b ELSE Len(arr))

\* cleanSectionRows with the empty rows removed at the start only
cleanSectionRowsLeadingOnly(sectionRows) ==
    LET n == Len(sectionRows)
        full == {i \in 1..n : ~isRowEmpty(sectionRows[i])}
        start == IF full = {} THEN n ELSE (CHOOSE i \in full : \A j \in full : i <= j) - 1
    IN  slice(sectionRows, start, n)

cleanSectionRows(sectionRows) ==
    LET n == Len(sectionRows)
        NotEmpty(r) == ~isRowEmpty(r)
        full == {i \in 1..n : NotEmpty(sectionRows[i])}
        \* start and end, from 0
        start == IF full = {} THEN n ELSE (CHOOSE i \in full : \A j \in full : i <= j) - 1
        end == IF full = {} THEN start - 1
               ELSE (CHOOSE i \in full : \A j \in full : j <= i) - 1
    IN  SelectSeq(slice(sectionRows, start, end + 1), NotEmpty)

\* one object per row; the names of a column list are distinct
mapRowsToObjects(rows, cols) ==
    [n \in 1..Len(rows) |->
        [i \in 1..Len(cols) |->
            [k |-> cols[i], v |-> IF i <= Len(rows[n]) THEN rows[n][i] ELSE Null]]]

\* the probe of the WITH_D layout on the row first
ProbeWithD(first) ==
    LET cell(i) == IF i + 1 <= Len(first) /\ first[i + 1].t # "null"
                   THEN trim(first[i + 1].s) ELSE <<>>
        looksBoolLT(s) == toLowerCase(s) \in {S_taip, S_ne}
        \* /^\d{1,2}\.\d{1,2}\.\d{4}$/
        IsShortDottedDate(s) ==
            LET p == Split(s, ".")
            IN  /\ Len(p) = 3
                /\ \A i \in 1..3 : AllDigits(p[i])
                /\ Len(p[1]) \in 1..2 /\ Len(p[2]) \in 1..2 /\ Len(p[3]) = 4
        looksDate(s) == IsSlashDate(s) \/ IsIsoDate(s) \/ IsShortDottedDate(s)
        looksTime(s) == IsTime(s)
        looksNumber(s) == s # <<>> /\ NumberJS(ReplaceFirstComma(s)).finite
        dBlank == cell(3) = <<>> \/ toLowerCase(cell(3)) = <<"n", "u", "l", "l">>
    IN  dBlank /\ looksNumber(cell(4)) /\ looksBoolLT(cell(5)) /\ looksDate(cell(6))
        /\ looksTime(cell(7))

\* the name under which the handler reports the column list chosen
pickAt2Schema(sec2) ==
    LET NotBlank(r) == \E i \in 1..Len(r) : ~IsBlankCell(r[i])
        some == SelectSeq(sec2, NotBlank)
    IN  IF some = <<>> THEN "WITH_D"
        ELSE IF ProbeWithD(some[1]) THEN "WITH_D"
        ELSE "NO_D"

\* "1 ATASKAITA", "2 ATASKAITA", "3 ATASKAITA"
Marker(d) == <<d, " ", "A", "T", "A", "S", "K", "A", "I", "T", "A">>

\* a response without sections: keys are the properties of the JSON body, markers
\* the indices reported under found (-1 where there is none)
SectionsError(code, error, keys, found) ==
    [status |-> code, error |-> error, keys |-> keys, markers |-> found,
     at2_schema |-> "", counts |-> <<0, 0, 0>>,
     ataskaita1 |-> <<>>, ataskaita2 |-> <<>>, ataskaita3 |-> <<>>]

\* the test of the handler with the third marker left out
AnyMarkerMissingNoThird(i1, i2, i3) == i1 = -1 \/ i2 = -1

\* if (i1 === -1 || i2 === -1 || i3 === -1)
AnyMarkerMissing(i1, i2, i3) == i1 = -1 \/ i2 = -1 \/ i3 = -1

sectionsResponse(req) ==
    IF req.method # "POST" THEN SectionsError(405, "Use POST", {"error", "hint"}, <<-1, -1, -1>>)
    ELSE IF req.body = "empty"
         THEN SectionsError(500, "Empty body", {"error"}, <<-1, -1, -1>>)
    ELSE IF Len(req.rows) = 0
         THEN SectionsError(400, "Excel has no rows.", {"error"}, <<-1, -1, -1>>)
    ELSE LET rows == req.rows
             i1 == findMarkerIndex(rows, Marker("1"))
             i2 == findMarkerIndex(rows, Marker("2"))
             i3 == findMarkerIndex(rows, Marker("3"))
         IN  IF AnyMarkerMissing(i1, i2, i3)
             THEN SectionsError(400, "Could not find all 3 markers (1/2/3 ATASKAITA).",
                                {"error", "found"}, <<i1, i2, i3>>)
             ELSE LET sec1 == cleanSectionRows(slice(rows, i1 + 1, i2))
                      sec2 == cleanSectionRows(slice(rows, i2 + 1, i3))
                      sec3 == cleanSectionRows(slice(rows, i3 + 1, Len(rows)))
                      ataskaita1 == mapRowsToObjects(sec1, AT1_COLS)
                      at2 == pickAt2Schema(sec2)
                      ataskaita2 == mapRowsToObjects(sec2, IF at2 = "WITH_D" THEN AT2_COLS_WITH_D
                                                          ELSE AT2_COLS_NO_D)
                      ataskaita3 == mapRowsToObjects(sec3, AT3_COLS)
                  IN  [status |-> 200, error |-> "",
                       keys |-> {"meta", "ataskaita1", "ataskaita2", "ataskaita3"},
                       markers |-> <<i1, i2, i3>>, at2_schema |-> at2,
                       counts |-> <<Len(ataskaita1), Len(ataskaita2), Len(ataskaita3)>>,
                       ataskaita1 |-> ataskaita1, ataskaita2 |-> ataskaita2,
                       ataskaita3 |-> ataskaita3]

\* the sheets: sheet_to_json(header: 1, raw: false, defval: null, blankrows: true)
\* gives every row the width of the sheet, the cells being strings or null
SheetWidth == 8
SheetRow(cells) == alignRow(cells, SheetWidth)

R_M1 == SheetRow(<<Str(Marker("1"))>>)
R_M2 == SheetRow(<<Str(<<"2">>), Str(<<"A", "t", "a", "s", "k", "a", "i", "t", "a">>)>>)
R_M3 == SheetRow(<<Null, Str(<<" ">> \o Marker("3") \o <<" ">>)>>)
R_Blank == SheetRow(<<Null, C_blank>>)
R_Data == SheetRow(<<C_7, C_x>>)
R_WithD ==
    SheetRow(<<C_7, C_x, C_y, Null, Str(<<"5", ",", "5">>), Str(<<"T", "a", "i", "p">>),
               C_date, Str(<<"7", ":", "3", "0">>)>>)
R_NoD ==
    SheetRow(<<C_7, C_x, C_y, Str(<<"5", ",", "5">>), Str(S_ne),
               C_date, Str(<<"7", ":", "3", "0">>)>>)

SheetRowPool == {R_M1, R_M2, R_M3, R_Blank, R_Data, R_WithD, R_NoD}

\* three markers, each followed by two data rows and a blank row
GThreeReports ==
    <<R_M1, R_Data, R_Data, R_Blank, R_M2, R_WithD, R_WithD, R_Blank,
      R_M3, R_Data, R_Data, R_Blank>>

MaxSheetRows == 4

SectionsReqPool ==
    {[method |-> "POST", body |-> "xlsx", rows |-> g] :
        g \in SeqsUpTo(SheetRowPool, MaxSheetRows) \cup {GThreeReports}}
    \cup {[method |-> "GET", body |-> "xlsx", rows |-> <<>>],
          [method |-> "POST", body |-> "empty", rows |-> <<>>]}

InitSections ==
    /\ env = <<>> /\ perm = "rw" /\ snapshotFile = NoFile
    /\ calls = [c \in Slots |-> IdleCall] /\ lastWrite = NoHeaders
    /\ \E req \in SectionsReqPool :
           probe = [fn |-> "sections", arg |-> req, res |-> <<>>, done |-> FALSE]

\* the handler of extract-automatic-file.js: it keeps nothing between two calls
handlerSections ==
    /\ probe.fn = "sections" /\ ~probe.done
    /\ probe' = [probe EXCEPT !.res = sectionsResponse(probe.arg), !.done = TRUE]
    /\ UNCHANGED <<env, perm, snapshotFile, calls, lastWrite>>

SpecSections == InitSections /\ [][handlerSections]_vars

\* the call was a POST of a workbook whose sheet has rows
SectionsRan == probe.fn = "sections" /\ probe.done /\ probe.arg.method = "POST"
               /\ probe.arg.body = "xlsx" /\ Len(probe.arg.rows) > 0

\* the rows, numbered from 0, whose text holds the marker of report d
RowsWithMarker(rows, d) ==
    {i \in 0..(Len(rows) - 1) : includes(rowToString(rows[i + 1]), toLowerCase(Marker(d)))}

MarkerDigits == <<"1", "2", "3">>

\* C11: when one of the three markers is in no row, the call ends with the error
\* of the missing markers, which reports for each marker -1 if no row holds it and
\* else the index of the first row holding it, and the response has no section
C11_MissingMarkerReported ==
    (SectionsRan /\ \E d \in 1..3 : RowsWithMarker(probe.arg.rows, MarkerDigits[d]) = {}) =>
        /\ probe.res.status = 400
        /\ probe.res.keys = {"error", "found"}
        /\ \A d \in 1..3 :
               LET at == RowsWithMarker(probe.arg.rows, MarkerDigits[d])
                   i == probe.res.markers[d]
               IN  IF at = {} THEN i = -1
                   ELSE i \in at /\ \A j \in at : i <= j
        /\ probe.res.ataskaita1 = <<>> /\ probe.res.ataskaita2 = <<>>
        /\ probe.res.ataskaita3 = <<>>

\* the first two markers were found, with data rows after them, and the third not
C11_Witness ==
    /\ SectionsRan
    /\ probe.arg.rows = <<R_M1, R_Data, R_M2, R_Data>>
    /\ probe.res.markers = <<0, 2, -1>>
    /\ probe.res.status = 400

-----------------------------------------------------------------------------
(* The invoice text (src/api/extractinvoice.js and its earlier revision        *)
(* src/unnamed/part_001): the text of the PDF is cut into lines and each line  *)
(* is tried against the row patterns.  A pattern is computed as the set of     *)
(* positions of the line its pieces can reach from a set of positions, which   *)
(* decides whether the whole line matches; the letters of the model are the    *)
(* ASCII letters.                                                              *)

\* s.replace(/\s+/g, " ").trim()
norm(s) ==
    LET Kept(i) == ~IsSpace(s[i]) \/ i = 1 \/ ~IsSpace(s[i - 1])
        at == SelectSeq([i \in 1..Len(s) |-> i], Kept)
    IN  trim([n \in 1..Len(at) |-> IF IsSpace(s[at[n]]) THEN " " ELSE s[at[n]]])

\* text.split(/\r?\n/).map(norm).filter(Boolean): the \r before a \n is white
\* space at the end of its line, which norm removes as the split would
linesOf(text) ==
    LET NonEmpty(l) == l # <<>>
        parts == Split(text, "\n")
    IN  SelectSeq([i \in 1..Len(parts) |-> norm(parts[i])], NonEmpty)

\* the character classes of the row patterns, under the i flag
InClass(cls, c) ==
    CASE cls = "\\d" -> IsDigit(c)
      [] cls = "\\s" -> IsSpace(c)
      [] cls = "." -> c # "\n"
      [] cls = "[ .]" -> c \in {" ", "."}
      [] cls = "[.,]" -> c \in {".", ","}
      [] cls = "[()]" -> c \in {"(", ")"}
      [] cls = "%" -> c = "%"
      [] cls = "-" -> c = "-"
      [] cls = "[A-Z]" -> c \in Upper
      [] cls = "[A-Z0-9\\-\\._]" -> IsAlpha(c) \/ IsDigit(c) \/ c \in {"-", ".", "_"}
      [] cls = "UNIT" -> IsAlpha(c) \/ c \in {"%", "/", "."}

\* cls{min,max} from each position of P, max < 0 for no upper limit: the positions
\* after min to max characters of the class
Rep(s, P, cls, min, max) ==
    UNION {{q \in (p + min)..(IF max < 0 \/ p + max > Len(s) + 1 THEN Len(s) + 1
                              ELSE p + max) :
               \A j \in p..(q - 1) : InClass(cls, s[j])} : p \in P}

\* NUM = (?:\d{1,3}(?:[ .]\d{3})*|\d+)(?:[.,]\d{2,4})? ; part_001 has [.,]\d{2}.
\* The positions after a number that starts at one of P
NUM(ver, s, P) ==
    LET \* (?:[ .]\d{3})* : any number of groups of four characters
        Groups(Q) ==
            UNION {{q \in p..(Len(s) + 1) :
                       /\ (q - p) % 4 = 0
                       /\ \A j \in p..(q - 1) :
                              InClass(IF (j - p) % 4 = 0 THEN "[ .]" ELSE "\\d", s[j])} :
                   p \in Q}
        Whole(p) == Groups(Rep(s, {p}, "\\d", 1, 3)) \cup Rep(s, {p}, "\\d", 1, -1)
        Fraction(q) == Rep(s, Rep(s, {q}, "[.,]", 1, 1), "\\d", 2, IF ver = "p1" THEN 2 ELSE 4)
    IN  UNION {UNION {{q} \cup Fraction(q) : q \in Whole(p)} : p \in P}

\* ^(?:(?<sku>[A-Z0-9\-\._]{2,})\s+)?(?<desc>.+?)\s+
SkuDesc(s) ==
    LET sku == {1} \cup Rep(s, Rep(s, {1}, "[A-Z0-9\\-\\._]", 2, -1), "\\s", 1, -1)
    IN  Rep(s, Rep(s, sku, ".", 1, -1), "\\s", 1, -1)

\* (?<unit>[A-Za-z...%/\.a-zA-Z]{1,8})\s+
UNIT(s, P) == Rep(s, Rep(s, P, "UNIT", 1, 8), "\\s", 1, -1)

\* after (?<qty>NUM): \s* in extractinvoice.js, \s*[\(\)]?\s+ in part_001
AfterQty(ver, s, P) ==
    IF ver = "p1"
    THEN Rep(s, Rep(s, Rep(s, P, "\\s", 0, -1), "[()]", 0, 1), "\\s", 1, -1)
    ELSE Rep(s, P, "\\s", 0, -1)

\* (?<vat>\d{1,2})\s*%?\s+
VAT(s, P) ==
    Rep(s, Rep(s, Rep(s, Rep(s, P, "\\d", 1, 2), "\\s", 0, -1), "%", 0, 1), "\\s", 1, -1)

\* whether the pieces reach the end of the line: ...\s*$
AtEnd(s, P) == (Len(s) + 1) \in Rep(s, P, "\\s", 0, -1)

reFull(ver, s) ==
    LET qty == AfterQty(ver, s, NUM(ver, s, SkuDesc(s)))
        price == Rep(s, NUM(ver, s, qty \cup UNIT(s, qty)), "\\s", 1, -1)
        net == Rep(s, NUM(ver, s, VAT(s, price)), "\\s", 1, -1)
        vatamt == Rep(s, NUM(ver, s, net), "\\s", 1, -1)
    IN  AtEnd(s, NUM(ver, s, vatamt))

\* extractinvoice.js: desc, qty, unit, price, sum
reFour(s) ==
    LET qty == Rep(s, NUM("inv", s, SkuDesc(s)), "\\s", 1, -1)
        price == Rep(s, NUM("inv", s, UNIT(s, qty)), "\\s", 1, -1)
    IN  AtEnd(s, NUM("inv", s, price))

\* extractinvoice.js: desc, qty, [unit], price, [gross]
reMin(s) ==
    LET qty == AfterQty("inv", s, NUM("inv", s, SkuDesc(s)))
        price == NUM("inv", s, qty \cup UNIT(s, qty))
        gross == NUM("inv", s, Rep(s, price, "\\s", 1, -1))
    IN  AtEnd(s, price \cup gross)

\* part_001: desc, qty, [unit], price, vat, gross
reMinimal(s) ==
    LET qty == AfterQty("p1", s, NUM("p1", s, SkuDesc(s)))
        price == Rep(s, NUM("p1", s, qty \cup UNIT(s, qty)), "\\s", 1, -1)
    IN  AtEnd(s, NUM("p1", s, VAT(s, price)))

\* /(i\u0161 viso|viso|bendra suma|total)/i: a line with the first alternative has
\* the second
STOP(s) ==
    LET l == toLowerCase(s)
    IN  \/ includes(l, <<"v", "i", "s", "o">>)
        \/ includes(l, <<"b", "e", "n", "d", "r", "a", " ", "s", "u", "m", "a">>)
        \/ includes(l, <<"t", "o", "t", "a", "l">>)

\* the cascade with the second pattern tried before the first
KindOfFourFirst(ver, raw) ==
    IF ver = "p1"
    THEN (IF reMinimal(raw) THEN "min" ELSE IF reFull(ver, raw) THEN "full" ELSE "none")
    ELSE IF reFour(raw) THEN "four"
    ELSE IF reFull(ver, raw) THEN "full"
    ELSE IF reMin(raw) THEN "min"
    ELSE "none"

\* the pattern a line is parsed with: raw.match(reFull), else reFour, else reMin;
\* raw.match(reFull) || raw.match(reMinimal) in part_001
KindOf(ver, raw) ==
    IF reFull(ver, raw) THEN "full"
    ELSE IF ver = "p1" THEN (IF reMinimal(raw) THEN "min" ELSE "none")
    ELSE IF reFour(raw) THEN "four"
    ELSE IF reMin(raw) THEN "min"
    ELSE "none"

\* the loop over the lines: break at the first totals line, continue at a line no
\* pattern matches.  The fields captured from a line are functions of the line and
\* of its pattern; an item keeps the line in their place
parseLines(ver, text) ==
    LET Items(ls) ==
            LET stops == {i \in 1..Len(ls) : STOP(ls[i])}
                stopAt == IF stops = {} THEN Len(ls) + 1
                          ELSE CHOOSE i \in stops : \A j \in stops : i <= j
                Matched(i) == KindOf(ver, ls[i]) # "none"
                hit == SelectSeq([i \in 1..(stopAt - 1) |-> i], Matched)
            IN  [n \in 1..Len(hit) |->
                    [line_no |-> n, kind |-> KindOf(ver, ls[hit[n]]), raw |-> ls[hit[n]]]]
    IN  CHOOSE out \in {Items(ls) : ls \in {linesOf(text)}} : TRUE

\* the response of the handler for the text pdf-parse returns; the supplier and
\* invoice fields of parseHeader are left out.  part_001 reports no kinds
invoiceResponse(ver, text) ==
    LET Count(lines, k) == Cardinality({n \in 1..Len(lines) : lines[n].kind = k})
        Response(lines) ==
            [status |-> 200, lines |-> lines,
             debug |-> [text_len |-> Len(text), matched_lines |-> Len(lines)],
             kinds |-> IF ver = "p1" THEN <<>>
                       ELSE [k \in {"full", "four", "min"} |-> Count(lines, k)]]
    IN  CHOOSE r \in {Response(lines) : lines \in {parseLines(ver, text)}} : TRUE

L_Full == <<"a", "b", " ", "2", " ", "v", "n", "t", " ", "1", ",", "5", "0", " ",
            "2", "1", " ", "3", ",", "0", "0", " ", "0", ",", "6", "3", " ",
            "3", ",", "6", "3">>
L_Four == <<"a", "b", " ", "2", " ", "v", "n", "t", " ", "1", ",", "5", "0", " ",
            "3", ",", "0", "0">>
L_Min == <<"a", "b", " ", "2", " ", "1", ",", "5", "0">>
L_Minimal == <<"a", "b", " ", "2", " ", "(", " ", "1", ",", "5", "0", " ", "2", "1",
               "%", " ", "3", ",", "6", "3">>
L_None == <<"P", "V", "M", " ", "k", "o", "d", "a", "s">>
L_Stop == <<"I", "s", " ", "V", "I", "S", "O", " ", "3", ",", "6", "3">>
L_Blank == <<" ", "\t", "\r">>
L_Suma == <<"S", "u", "m", "a", " ", "3", ",", "6", "3">>
\* a line both reFull and reFour match: "ab 2 1,50 21 % 1 000 2,00"
L_Both == <<"a", "b", " ", "2", " ", "1", ",", "5", "0", " ", "2", "1", " ", "%", " ",
            "1", " ", "0", "0", "0", " ", "2", ",", "0", "0">>

LinePool == {L_Full, L_Four, L_Min, L_Minimal, L_None, L_Stop, L_Blank, L_Both, L_Suma}

RECURSIVE JoinLines(_)
\* the lines of a text, each ended by a line feed but the last
JoinLines(ls) ==
    IF ls = <<>> THEN <<>>
    ELSE IF Len(ls) = 1 THEN ls[1]
    ELSE ls[1] \o <<"\n">> \o JoinLines(Tail(ls))

MaxTextLines == 2

\* an invoice: a row two patterns match, a line of another kind, a row of each of
\* the other layouts, the totals line and a row after it
T_Invoice == JoinLines(<<L_Both, L_None, L_Four, L_Min, L_Stop, L_Full>>)

\* parsed.text || "": a PDF without a text layer gives the empty text
TextPool == {JoinLines(ls) : ls \in SeqsUpTo(LinePool, MaxTextLines)} \cup {T_Invoice}

InitInvoice ==
    /\ env = <<>> /\ perm = "rw" /\ snapshotFile = NoFile
    /\ calls = [c \in Slots |-> IdleCall] /\ lastWrite = NoHeaders
    /\ \E ver \in {"inv", "p1"}, text \in TextPool :
           probe = [fn |-> ver, arg |-> text, res |-> <<>>, done |-> FALSE]

\* the handlers of extractinvoice.js and part_001 from the parsed text on: they
\* keep nothing between two calls
handlerInvoice ==
    /\ probe.fn \in {"inv", "p1"} /\ ~probe.done
    /\ probe' = [probe EXCEPT !.res = invoiceResponse(probe.fn, probe.arg), !.done = TRUE]
    /\ UNCHANGED <<env, perm, snapshotFile, calls, lastWrite>>

SpecInvoice == InitInvoice /\ [][handlerInvoice]_vars

InvoiceRan == probe.fn \in {"inv", "p1"} /\ probe.done

\* C12: a text without any line ends in an error result, with no success result
\* and no items
C12_EmptyTextIsFatal ==
    (InvoiceRan /\ linesOf(probe.arg) = <<>>) => probe.res.status >= 400

C14_SkippedLinesCounted ==
    InvoiceRan =>
        LET skipped == Len(linesOf(probe.arg)) - Len(probe.res.lines)
        IN  \E f \in DOMAIN probe.res.debug : probe.res.debug[f] = skipped

\* the rows of the sheet from index a to index b - 1, from 0, that are not entirely
\* empty, mapped onto cols
FullRowsBetween(rows, a, b, cols) ==
    LET Full(r) == \E i \in 1..Len(r) : r[i] # Null /\ trim(r[i].s) # <<>>
        at == SelectSeq([i \in 1..Len(rows) |-> i],
                        LAMBDA i : a <= i - 1 /\ i - 1 < b /\ Full(rows[i]))
    IN  [n \in 1..Len(at) |->
            [i \in 1..Len(cols) |->
                [k |-> cols[i],
                 v |-> IF i <= Len(rows[at[n]]) THEN rows[at[n]][i] ELSE Null]]]

\* C15: the Records of a section are the rows after its marker and before the
\* next marker without the entirely empty ones, so no Record stems from an empty
\* row at the start or at the end of the section; the count reported for a section
\* is the number of its Records; the workbook of three markers, each with two data
\* rows and a blank row, gives two Records per section and the counts 2, 2, 2
C15_EmptyRowsTrimmedAndCounted ==
    (SectionsRan /\ probe.res.status = 200) =>
        LET rows == probe.arg.rows
            i == probe.res.markers
            at2 == IF probe.res.at2_schema = "WITH_D" THEN AT2_COLS_WITH_D
                   ELSE AT2_COLS_NO_D
        IN  /\ probe.res.ataskaita1 = FullRowsBetween(rows, i[1] + 1, i[2], AT1_COLS)
            /\ probe.res.ataskaita2 = FullRowsBetween(rows, i[2] + 1, i[3], at2)
            /\ probe.res.ataskaita3 = FullRowsBetween(rows, i[3] + 1, Len(rows), AT3_COLS)
            /\ probe.res.counts = <<Len(probe.res.ataskaita1), Len(probe.res.ataskaita2),
                                    Len(probe.res.ataskaita3)>>
            /\ rows = GThreeReports => probe.res.counts = <<2, 2, 2>>

\* the workbook of three markers with two data rows and a blank row each
C15_Witness ==
    /\ SectionsRan
    /\ probe.arg.rows = GThreeReports
    /\ Len(probe.res.ataskaita1) = 2 /\ Len(probe.res.ataskaita2) = 2
    /\ Len(probe.res.ataskaita3) = 2
    /\ probe.res.counts = <<2, 2, 2>>

\* the shape probe of the layout without the unused column, at the positions
\* AT2_COLS_NO_D gives the probed fields: the average at 3, the yes/no at 4, the
\* date at 5 and the time at 6
ProbeNoD(first) ==
    LET cell(i) == IF i + 1 <= Len(first) /\ first[i + 1].t # "null"
                   THEN trim(first[i + 1].s) ELSE <<>>
        p == Split(cell(5), ".")
        dotted == /\ Len(p) = 3
                  /\ \A i \in 1..3 : AllDigits(p[i])
                  /\ Len(p[1]) \in 1..2 /\ Len(p[2]) \in 1..2 /\ Len(p[3]) = 4
    IN  /\ cell(3) # <<>> /\ NumberJS(ReplaceFirstComma(cell(3))).finite
        /\ toLowerCase(cell(4)) \in {S_taip, S_ne}
        /\ IsSlashDate(cell(5)) \/ IsIsoDate(cell(5)) \/ dotted
        /\ IsTime(cell(6))

\* the rows of the second report as the handler cuts them, the empty ones left out
SecondReportRows(rows, i) ==
    LET Full(r) == \E k \in 1..Len(r) : r[k] # Null /\ trim(r[k].s) # <<>>
    IN  SelectSeq([n \in 1..Len(rows) |-> IF i[2] + 1 <= n - 1 /\ n - 1 < i[3]
                                          THEN rows[n] ELSE <<>>], Full)

\* C16: the layout reported for the second report is the one whose probe on the
\* first non-empty row succeeds at every position, and WITH_D when no probe
\* succeeds or the report has no row
C16_ProbeChoosesLayout ==
    (SectionsRan /\ probe.res.status = 200) =>
        LET sec2 == SecondReportRows(probe.arg.rows, probe.res.markers)
        IN  probe.res.at2_schema =
                IF sec2 = <<>> THEN "WITH_D"
                ELSE IF ProbeWithD(sec2[1]) THEN "WITH_D"
                ELSE IF ProbeNoD(sec2[1]) THEN "NO_D"
                ELSE "WITH_D"

-----------------------------------------------------------------------------
(* The number normalizer of the invoice parsers *)

\* num of extractinvoice.js ("inv") and of part_001 ("p1")
num(ver, val) ==
    IF val.t = "null" THEN Null
    ELSE LET NoSpace(c) == ~IsSpace(c)
             NumChar(c) == IsDigit(c) \/ c \in {",", ".", "-"}
             \* .replace(/\s/g, "").replace(/[^0-9,.\-]/g, "")
             t0 == SelectSeq(SelectSeq(val.s, NoSpace), NumChar)
             n == Len(t0)
             \* /(\d)\.(?=\d{3}([.,]|$))/g: a dot after a digit and before three
             \* digits that end the string or come before a dot or a comma
             ThousandDot(i) ==
                 /\ t0[i] = "." /\ i > 1 /\ IsDigit(t0[i - 1])
                 /\ i + 3 <= n /\ \A j \in (i + 1)..(i + 3) : IsDigit(t0[j])
                 /\ (i + 3 = n \/ t0[i + 4] \in {".", ","})
             Kept(i) == ~ThousandDot(i)
             at == SelectSeq([i \in 1..n |-> i], Kept)
             t1 == [k \in 1..Len(at) |-> t0[at[k]]]
             NoDot(c) == c # "."
             t2 == IF ver = "inv" /\ (\E i \in 1..Len(t1) : t1[i] = ",")
                                  /\ (\E i \in 1..Len(t1) : t1[i] = ".")
                   THEN ReplaceFirstComma(SelectSeq(t1, NoDot))
                   ELSE ReplaceFirstComma(t1)
             v == NumberJS(t2)
         IN  IF v.finite THEN Num(v.repr) ELSE Null

MaxNumLen == 3
NumCharPool == {"1", "0", ".", ",", " ", "-"}
N_14_000_00 == <<"1", "4", ".", "0", "0", "0", ",", "0", "0">>
N_0_04 == <<"0", ",", "0", "4">>
N_610_00 == <<"6", "1", "0", " ", "0", "0">>
N_1_234_56_comma == <<"1", ".", "2", "3", "4", ",", "5", "6">>
N_1_234_56_dot == <<"1", ",", "2", "3", "4", ".", "5", "6">>

InitNum ==
    /\ env = <<>> /\ perm = "rw" /\ snapshotFile = NoFile
    /\ calls = [c \in Slots |-> IdleCall] /\ lastWrite = NoHeaders
    /\ \E ver \in {"inv", "p1"},
          s \in SeqsUpTo(NumCharPool, MaxNumLen)
                  \cup {N_14_000_00, N_0_04, N_610_00, N_1_234_56_comma, N_1_234_56_dot} :
           probe = [fn |-> "num", ver |-> ver, arg |-> Str(s), res |-> Null, done |-> FALSE]

applyNum ==
    /\ probe.fn = "num" /\ ~probe.done
    /\ probe' = [probe EXCEPT !.res = num(probe.ver, probe.arg), !.done = TRUE]
    /\ UNCHANGED <<env, perm, snapshotFile, calls, lastWrite>>

SpecNum == InitNum /\ [][applyNum]_vars

\* C17: "14.000,00" gives 14000, "0,04" gives 0.04 and "610 00" gives 610
C17_NumberExamples ==
    (probe.fn = "num" /\ probe.done) =>
        /\ probe.arg = Str(N_14_000_00) => probe.res = Num(<<"1", "4", "0", "0", "0">>)
        /\ probe.arg = Str(N_0_04) => probe.res = Num(<<"0", ".", "0", "4">>)
        /\ probe.arg = Str(N_610_00) => probe.res = Num(<<"6", "1", "0">>)

-----------------------------------------------------------------------------
(* The field normalizers applied once and again.  A letter that is not ASCII  *)
(* is written as a name: "e_dot" is the e with a dot above, "c_caron" the c   *)
(* with a caron; the values of the model hold them in lower case only.        *)

\* /^(\d{4})[-./](\d{2})[-./](\d{2})$/
IsYmd(s) ==
    /\ Len(s) = 10
    /\ s[5] \in {"-", ".", "/"} /\ s[8] \in {"-", ".", "/"}
    /\ \A i \in {1, 2, 3, 4, 6, 7, 9, 10} : IsDigit(s[i])

\* /^(\d{2})[-./](\d{2})[-./](\d{4})$/
IsDmy(s) ==
    /\ Len(s) = 10
    /\ s[3] \in {"-", ".", "/"} /\ s[6] \in {"-", ".", "/"}
    /\ \A i \in {1, 2, 4, 5, 7, 8, 9, 10} : IsDigit(s[i])

\* toISO of extractpdf.js, route.ts and the invoice parsers
toISO(d) ==
    IF d.t = "null" \/ d.s = <<>> THEN Null
    ELSE IF IsYmd(d.s)
         THEN Str(SubSeq(d.s, 1, 4) \o <<"-">> \o SubSeq(d.s, 6, 7) \o <<"-">>
                  \o SubSeq(d.s, 9, 10))
    ELSE IF IsDmy(d.s)
         THEN Str(SubSeq(d.s, 7, 10) \o <<"-">> \o SubSeq(d.s, 4, 5) \o <<"-">>
                  \o SubSeq(d.s, 1, 2))
    ELSE Null

\* whether s starts with the characters of p
startsWith(s, p) == Len(s) >= Len(p) /\ SubSeq(s, 1, Len(p)) = p

\* normalizeSex of extractpdf.js
normalizeSex(s) ==
    IF s.t = "null" \/ s.s = <<>> THEN Null
    ELSE LET x == toLowerCase(s.s)
         IN  IF startsWith(x, <<"b", "u", "l", "i", "u">>)
             THEN Str(<<"B", "u", "l", "i", "u", "s">>)
             ELSE IF startsWith(x, <<"k", "a", "r", "v">>)
             THEN Str(<<"K", "a", "r", "v", "e_dot">>)
             ELSE IF startsWith(x, <<"t", "e", "l", "y">>)
             THEN Str(<<"T", "e", "l", "y", "c_caron", "a", "i", "t", "e_dot">>)
             ELSE Str(<<UpperChar(s.s[1])>> \o toLowerCase(Tail(s.s)))

\* the sex of a Record in the second parser of extractpdf.js and in route.ts:
\* sexRaw ? sexRaw.charAt(0).toUpperCase() + sexRaw.slice(1).toLowerCase() : null
capitalizeSex(s) ==
    IF s.t = "null" \/ s.s = <<>> THEN Null
    ELSE Str(<<UpperChar(s.s[1])>> \o toLowerCase(Tail(s.s)))

Normalizers ==
    {"toISO", "toISODate", "toTime", "toNum", "toBoolLT", "normalizeSex", "capitalizeSex"}

Normalize(fn, v) ==
    CASE fn = "toISO" -> toISO(v)
      [] fn = "toISODate" -> toISODate(v)
      [] fn = "toTime" -> toTime(v)
      [] fn = "toNum" -> toNum(v)
      [] fn = "toBoolLT" -> toBoolLT(v)
      [] fn = "normalizeSex" -> normalizeSex(v)
      [] fn = "capitalizeSex" -> capitalizeSex(v)

DateSeps == {"-", ".", "/"}
\* the 25th of October 2025 in both orders with every pair of separators, and
\* strings that are no such literal
DatePool ==
    {Str(<<"2", "0", "2", "5">> \o <<a>> \o <<"1", "0">> \o <<b>> \o <<"2", "5">>) :
        a, b \in DateSeps}
    \cup {Str(<<"2", "5">> \o <<a>> \o <<"1", "0">> \o <<b>> \o <<"2", "0", "2", "5">>) :
        a, b \in DateSeps}
    \cup {Null, Str(<<>>), C_x, C_blank, Str(<<"1", "/", "2", "/", "2", "4">>),
          Str(<<" ", "2", "5", ".", "1", "0", ".", "2", "0", "2", "5">>),
          Str(<<"2", "5", ".", "1", "0", ".", "2", "5">>)}

TimePool ==
    {Null, Str(<<>>), C_x, C_blank, Str(<<"7", ":", "3", "0">>),
     Str(<<"0", "7", ":", "3", "0">>), Str(<<" ", "7", ":", "3", "0", " ">>),
     Str(<<"7", ":", "3">>), Str(<<"7", ":", "3", "0", ":", "0", "0">>)}

NumberPool ==
    {Null, Str(<<>>), C_x, C_blank, C_5, Str(<<"5", ",", "5">>),
     Str(<<" ", "1", " ", "0", "0", "0", ",", "5", "0">>), Str(<<"1", ".", "5", ".", "2">>),
     Str(<<"-", "0", "7">>), Str(<<".", "5">>)}

BoolPool ==
    {Null, Str(<<>>), C_x, C_blank, Str(<<"T", "a", "i", "p">>), Str(S_taip),
     Str(<<" ", "N", "E", " ">>), Str(S_ne), Str(<<"t", "r", "u", "e">>)}

\* the sex tokens the row pattern captures, and other strings
SexPool ==
    {Null, Str(<<>>), C_x, Str(<<"a", "B">>), Str(<<"K", "a", "r", "v", "e">>),
     Str(<<"K", "A", "R", "V", "E">>), Str(<<"k", "a", "r", "v", "e_dot">>),
     Str(<<"B", "u", "l", "i", "u", "s">>), Str(<<"B", "u", "l", "i", "u", "k", "a", "s">>),
     Str(<<"T", "e", "l", "y", "c", "i", "a">>), Str(<<"t", "e", "l", "y", "t", "e_dot">>),
     Str(<<"T", "e", "l", "y", "c_caron", "a", "i", "t", "e_dot">>)}

NormalizerPool(fn) ==
    CASE fn \in {"toISO", "toISODate"} -> DatePool
      [] fn = "toTime" -> TimePool
      [] fn = "toNum" -> NumberPool
      [] fn = "toBoolLT" -> BoolPool
      [] fn \in {"normalizeSex", "capitalizeSex"} -> SexPool

InitTwice ==
    /\ env = <<>> /\ perm = "rw" /\ snapshotFile = NoFile
    /\ calls = [c \in Slots |-> IdleCall] /\ lastWrite = NoHeaders
    /\ \E fn \in Normalizers : \E v \in NormalizerPool(fn) :
           probe = [fn |-> fn, arg |-> v, res |-> Null, done |-> FALSE,
                    again |-> Null, twice |-> FALSE]

\* the normalizer applied to the raw value
applyNormalizer ==
    /\ probe.fn \in Normalizers /\ ~probe.done
    /\ probe' = [probe EXCEPT !.res = Normalize(probe.fn, probe.arg), !.done = TRUE]
    /\ UNCHANGED <<env, perm, snapshotFile, calls, lastWrite>>

\* the normalizer applied to its own result
applyNormalizerAgain ==
    /\ probe.fn \in Normalizers /\ probe.done /\ ~probe.twice
    /\ probe' = [probe EXCEPT !.again = Normalize(probe.fn, probe.res), !.twice = TRUE]
    /\ UNCHANGED <<env, perm, snapshotFile, calls, lastWrite>>

NextTwice == applyNormalizer \/ applyNormalizerAgain
SpecTwice == InitTwice /\ [][NextTwice]_vars

\* C18: for a date literal of either order with the separators - . / the second
\* normalization gives the ISO string YYYY-MM-DD the first one gave
C18_DateRoundTrip ==
    (probe.fn \in {"toISO", "toISODate"} /\ probe.twice
        /\ probe.arg.t = "string" /\ (IsYmd(probe.arg.s) \/ IsDmy(probe.arg.s))) =>
        /\ probe.res.t = "string" /\ IsIsoDate(probe.res.s)
        /\ probe.again = probe.res

\* C19: the time, number, boolean and category normalizers give their own result
\* back when they are applied to it
C19_NormalizersIdempotent ==
    (probe.fn \in {"toTime", "toNum", "toBoolLT", "normalizeSex"} /\ probe.twice) =>
        probe.again = probe.res

\* C20: when the first cell has not the identity-tag shape, the first row is taken
\* as a header exactly when it has a non-null cell and at least half of its
\* non-null cells are text with a character that is no digit; an empty row and a
\* row of null cells are no header
C20_HeaderIffHalfTextCells ==
    (/\ probe.fn = "detectHasHeader" /\ probe.done
     /\ \/ Len(probe.arg) = 0
        \/ probe.arg[1] = Null
        \/ ~TagShaped(probe.arg[1].s))
        => LET row == probe.arg
               nonNull == {i \in 1..Len(row) : row[i] # Null}
               text == {i \in nonNull : \E k \in 1..Len(row[i].s) : row[i].s[k] \notin Digits}
           IN  probe.res = (nonNull # {} /\ 2 * Cardinality(text) >= Cardinality(nonNull))

\* exactly half of the non-null cells are text with a non-digit: a header
C20_Witness ==
    /\ probe.fn = "detectHasHeader" /\ probe.done
    /\ probe.arg = <<Str(<<"1", "2">>), Str(<<"n", "r">>)>>
    /\ probe.res = TRUE

-----------------------------------------------------------------------------
(* Placeholder names of empty header cells (part_000 dedupeHeaders) *)

\* C21: a header cell that is empty after trimming gets a name that depends on its
\* column only: the empty cell at column i of any other header gets the same name
C21_PlaceholderIsPositional ==
    (probe.fn = "dedupeHeaders" /\ probe.done) =>
        \A i \in 1..Len(probe.arg) :
            trim(probe.arg[i]) = <<>> =>
                \A h \in SeqsUpTo(HdrNamePool, MaxHdrLen) :
                    (i <= Len(h) /\ trim(h[i]) = <<>>) =>
                        dedupeHeaders(h)[i] = probe.res[i]

\* C22: when the three markers are found, each section is made of the rows after
\* the first row with its marker and before the first row with the next marker
\* (the third running to the end of the sheet), and no row whose text holds a
\* marker is a Record of any section, in whatever order the markers come
C22_NoMarkerRowIsRecord ==
    (SectionsRan /\ probe.res.status = 200) =>
        LET rows == probe.arg.rows
            i == probe.res.markers
            at2 == IF probe.res.at2_schema = "WITH_D" THEN AT2_COLS_WITH_D
                   ELSE AT2_COLS_NO_D
            marked == {n \in 1..Len(rows) :
                          \E d \in 1..3 : (n - 1) \in RowsWithMarker(rows, MarkerDigits[d])}
            Clean(sec, cols) ==
                \A k \in 1..Len(sec) : \A n \in marked :
                    sec[k] # mapRowsToObjects(<<rows[n]>>, cols)[1]
        IN  /\ probe.res.ataskaita1 = FullRowsBetween(rows, i[1] + 1, i[2], AT1_COLS)
            /\ probe.res.ataskaita2 = FullRowsBetween(rows, i[2] + 1, i[3], at2)
            /\ probe.res.ataskaita3 = FullRowsBetween(rows, i[3] + 1, Len(rows), AT3_COLS)
            /\ Clean(probe.res.ataskaita1, AT1_COLS)
            /\ Clean(probe.res.ataskaita2, at2)
            /\ Clean(probe.res.ataskaita3, AT3_COLS)

\* the lines of the text before the first totals line
LinesBeforeStop(text) ==
    LET ls == linesOf(text)
        stops == {i \in 1..Len(ls) : STOP(ls[i])}
    IN  IF stops = {} THEN ls
        ELSE SubSeq(ls, 1, (CHOOSE i \in stops : \A j \in stops : i <= j) - 1)

\* C23: the patterns are tried in a fixed order and the first that matches the
\* whole line decides: an item has the kind "full" exactly when reFull matches its
\* line, "four" only when reFull does not and reFour does, "min" only when neither
\* does and the last pattern does; and each line gives one item at most, the items
\* being the lines some pattern matches, in their order
C23_FirstPatternWins ==
    InvoiceRan =>
        LET ver == probe.fn
            items == probe.res.lines
            Some(l) == reFull(ver, l) \/ (IF ver = "p1" THEN reMinimal(l)
                                          ELSE reFour(l) \/ reMin(l))
        IN  /\ \A n \in 1..Len(items) :
                   LET raw == items[n].raw
                       kind == items[n].kind
                   IN  /\ kind \in {"full", "four", "min"}
                       /\ kind = "full" <=> reFull(ver, raw)
                       /\ kind = "four" => ver = "inv" /\ ~reFull(ver, raw) /\ reFour(raw)
                       /\ kind = "min" =>
                              /\ ~reFull(ver, raw)
                              /\ IF ver = "p1" THEN reMinimal(raw)
                                 ELSE ~reFour(raw) /\ reMin(raw)
            /\ [n \in 1..Len(items) |-> items[n].raw]
                   = SelectSeq(LinesBeforeStop(probe.arg), Some)

\* a line two patterns match is an item of kind "full", followed by an item of
\* each of the other kinds
C23_Witness ==
    /\ InvoiceRan /\ probe.fn = "inv"
    /\ probe.arg = T_Invoice
    /\ reFull("inv", L_Both) /\ reFour(L_Both)
    /\ reFour(L_Four) /\ reMin(L_Four)
    /\ [n \in 1..Len(probe.res.lines) |-> probe.res.lines[n].kind]
           = <<"full", "four", "min">>

\* the reading of a literal the number format describes: of "." and ",", the one
\* that comes last is the decimal point when both occur and the other is left
\* out; a comma alone is the decimal point; what is then no decimal numeral is
\* null
DecimalReading(s) ==
    LET NoSpace(c) == ~IsSpace(c)
        t == SelectSeq(s, NoSpace)
        seps == {i \in 1..Len(t) : t[i] \in {".", ","}}
        both == (\E i \in seps : t[i] = ".") /\ (\E i \in seps : t[i] = ",")
        dec == IF seps = {} THEN "." ELSE t[CHOOSE i \in seps : \A j \in seps : j <= i]
        Kept(c) == c \notin {".", ","} \/ c = dec
        u == IF both THEN SelectSeq(t, Kept) ELSE t
        v == NumberJS([i \in 1..Len(u) |-> IF u[i] = "," THEN "." ELSE u[i]])
    IN  IF u # <<>> /\ v.finite THEN Num(v.repr) ELSE Null

\* C24: the number normalizer reads a literal with "." and "," by taking the one
\* that comes last as the decimal point and leaving the other out, so "1.234,56"
\* and "1,234.56" both give 1234.56; a comma alone is the decimal point; a literal
\* that is no numeral after this gives null
C24_RightmostSeparatorIsDecimal ==
    (probe.fn = "num" /\ probe.done) =>
        /\ probe.arg \in {Str(N_1_234_56_comma), Str(N_1_234_56_dot)} =>
               probe.res = Num(<<"1", "2", "3", "4", ".", "5", "6">>)
        /\ probe.res = DecimalReading(probe.arg.s)

\* C25: the date normalization gives null or a string YYYY-MM-DD and nothing else:
\* an input that is no literal YYYY[-./]MM[-./]DD or DD[-./]MM[-./]YYYY gives null,
\* never the input itself
C25_DateIsNullOrIso ==
    (probe.fn \in {"toISO", "toISODate"} /\ probe.done) =>
        /\ probe.res = Null \/ (probe.res.t = "string" /\ IsIsoDate(probe.res.s))
        /\ (probe.arg.t # "string" \/ ~(IsYmd(probe.arg.s) \/ IsDmy(probe.arg.s))) =>
               probe.res = Null

\* a spelling without its diacritics and in lower case
FoldSpelling(s) ==
    LET l == toLowerCase(s)
    IN  [i \in 1..Len(l) |-> CASE l[i] = "e_dot" -> "e"
                               [] l[i] = "c_caron" -> "c"
                               [] OTHER -> l[i]]

\* the word a sex token is a spelling of, "" for a token that is none of the words
SexWord(s) ==
    LET f == FoldSpelling(s)
    IN  IF f \in {<<"k", "a", "r", "v", "e">>} THEN "cow"
        ELSE IF f \in {<<"b", "u", "l", "i", "u", "s">>,
                       <<"b", "u", "l", "i", "u", "k", "a", "s">>} THEN "bull"
        ELSE IF f \in {<<"t", "e", "l", "y", "c", "i", "a">>, <<"t", "e", "l", "y", "t", "e">>,
                       <<"t", "e", "l", "y", "c", "a", "i", "t", "e">>} THEN "heifer"
        ELSE ""

\* C26: the sex a Record gets is the same label for all spellings of one word, with
\* or without diacritics, and for a token that is none of the words it is the token
\* with its first letter in upper case and the rest in lower case
C26_SexSpellingsShareLabel ==
    (probe.fn \in {"normalizeSex", "capitalizeSex"} /\ probe.done
        /\ probe.arg.t = "string" /\ probe.arg.s # <<>>) =>
        IF SexWord(probe.arg.s) = ""
        THEN probe.res = Str(<<UpperChar(probe.arg.s[1])>> \o toLowerCase(Tail(probe.arg.s)))
        ELSE \A v \in SexPool :
                 (v.t = "string" /\ v.s # <<>> /\ SexWord(v.s) = SexWord(probe.arg.s)) =>
                     Normalize(probe.fn, v) = probe.res

-----------------------------------------------------------------------------
(* The animal list read from the text of a PDF (src/unnamed/part_002): the   *)
(* rows are found by their heads, and the fields of a row are searched in the *)
(* text from the end of its head to the end of the next head.  A match is     *)
(* [found, at, end]: the place of its first character and the place after its *)
(* last one.                                                                  *)

\* the positions after the characters of w, in any case, from the positions of P
Lit(s, P, w) ==
    {q + Len(w) : q \in {p \in P : /\ p + Len(w) - 1 <= Len(s)
                                   /\ toLowerCase(SubSeq(s, p, p + Len(w) - 1)) = w}}

NoMatch == [found |-> FALSE, at |-> 0, end |-> 0]

\* the first of the matches a pattern has at the places of s, the pattern being
\* given by the place after the match at p (0 for none)
FirstMatch(ends) ==
    LET at == {p \in DOMAIN ends : ends[p] > 0}
    IN  IF at = {} THEN NoMatch
        ELSE CHOOSE m \in {[found |-> TRUE, at |-> p, end |-> ends[p]] : p \in at} :
                 \A q \in at : m.at <= q

\* /(\d+)\s*Galvijai\s*(DE\d+|LT\d+)/gi at the place p: the place after the match
\* and the place of the tag, 0 for no match
headReAt(s, p) ==
    LET word == Lit(s, Rep(s, Rep(s, {p}, "\\d", 1, -1), "\\s", 0, -1), <<"g", "a", "l", "v",
        "i", "j", "a", "i">>)
        tagAt == {t \in Rep(s, word, "\\s", 0, -1) :
                     Lit(s, {t}, <<"d", "e">>) \cup Lit(s, {t}, <<"l", "t">>) # {}}
        ends == Rep(s, {t + 2 : t \in tagAt}, "\\d", 1, -1)
    IN  IF ends = {} THEN [end |-> 0, tag |-> 0]
        ELSE [end |-> CHOOSE e \in ends : \A f \in ends : f <= e,
              tag |-> CHOOSE t \in tagAt : TRUE]

RECURSIVE headsFrom(_, _)
\* while ((m = headRe.exec(body)) !== null) segments.push({ idx, tag, start }):
\* the matches from lastIndex on, start being the place after the match
headsFrom(body, from) ==
    LET Push(p, m) ==
            <<[idx |-> SubSeq(body, p, (CHOOSE i \in p..Len(body) : ~IsDigit(body[i])
                                           /\ \A j \in p..(i - 1) : IsDigit(body[j])) - 1),
               tag |-> SubSeq(body, m.tag, m.end - 1),
               start |-> m.end]>> \o headsFrom(body, m.end)
        First(at) ==
            IF at = {} THEN <<>>
            ELSE CHOOSE r \in {Push(p, headReAt(body, p)) :
                                  p \in {q \in at : \A o \in at : q <= o}} : TRUE
    IN  CHOOSE r \in {First(at) :
                         at \in {{p \in from..Len(body) : headReAt(body, p).end > 0}}} : TRUE

\* \w of a pattern without the u flag
IsWordChar(c) == IsAlpha(c) \/ IsDigit(c) \/ c = "_"

\* \b at the place p of s: one of the characters before and at p is of \w
WordBoundary(s, p) ==
    (p > 1 /\ IsWordChar(s[p - 1])) # (p <= Len(s) /\ IsWordChar(s[p]))

SexTokens ==
    {<<"k", "a", "r", "v", "e_dot">>, <<"k", "a", "r", "v", "e">>, <<"t", "e", "l", "y",
        "c_caron", "a", "i", "t", "e_dot">>, <<"t", "e", "l", "y", "t", "e_dot">>, <<"t", "e",
        "l", "y", "t", "e">>, <<"t", "e", "l", "y", "c_caron", "i", "a">>,
     <<"t", "e", "l", "y", "c", "i", "a">>, <<"b", "u", "l", "i", "u", "s">>, <<"b", "u", "l",
         "i", "u", "k", "a", "s">>}

\* /\b(Karvė|Karve|Telyčaitė|Telytė|Telyte|Telyčia|Telycia|Bulius|Buliukas)\b/i:
\* no token starts another, so one alternative at most matches at a place
SEX_RE(s) ==
    FirstMatch([p \in 1..Len(s) |->
        LET ends == {e \in UNION {Lit(s, {p}, w) : w \in SexTokens} :
                        WordBoundary(s, p) /\ WordBoundary(s, e)}
        IN  IF ends = {} THEN 0 ELSE CHOOSE e \in ends : TRUE])

\* /(\d{4}[-./]\d{2}[-./]\d{2}|\d{2}[-./]\d{2}[-./]\d{4})/
DATE_RE(s) ==
    FirstMatch([p \in 1..Len(s) |->
        IF p + 9 <= Len(s) /\ (IsYmd(SubSeq(s, p, p + 9)) \/ IsDmy(SubSeq(s, p, p + 9)))
        THEN p + 10 ELSE 0])

\* /^\s*(\d+)(?:\s*(?:men)\.?)?/i: the digits captured, <<>> for no match
AGE_RE(s) ==
    LET ends == Rep(s, Rep(s, {1}, "\\s", 0, -1), "\\d", 1, -1)
    IN  IF ends = {} THEN <<>>
        ELSE SubSeq(s, (CHOOSE e \in ends : \A f \in ends : e <= f) - 1,
                       (CHOOSE e \in ends : \A f \in ends : f <= e) - 1)

\* /[A-Z]{2}-\d+/
PASS_RE(s) ==
    FirstMatch([p \in 1..Len(s) |->
        LET ends == Rep(s, Rep(s, Rep(s, {p}, "[A-Z]", 2, 2), "-", 1, 1), "\\d", 1, -1)
        IN  IF ends = {} THEN 0 ELSE CHOOSE e \in ends : \A f \in ends : f <= e])

\* String.prototype.indexOf from 0, -1 for none
indexOf(s, sub) ==
    LET at == {i \in 1..(Len(s) - Len(sub) + 1) : SubSeq(s, i, i + Len(sub) - 1) = sub}
    IN  IF at = {} THEN -1 ELSE (CHOOSE i \in at : \A j \in at : i <= j) - 1

\* s.seg(a, b) of a string, a negative b counted from the end
sliceStr(s, a, b) ==
    LET e == IF b < 0 THEN Len(s) + b ELSE IF b > Len(s) THEN Len(s) ELSE b
    IN  SubSeq(s, a + 1, e)

\* the Record of the row whose fields are searched in seg
animalRow(idx, tag, seg) ==
    LET sexMatch == SEX_RE(seg)
        afterSex == sliceStr(seg, IF sexMatch.found THEN sexMatch.end - 1 ELSE 0, Len(seg))
        inAfter == DATE_RE(afterSex)
        inSlice == DATE_RE(seg)
        dateMatch == IF inAfter.found THEN inAfter ELSE inSlice
        dateStr == IF inAfter.found THEN SubSeq(afterSex, inAfter.at, inAfter.end - 1)
                   ELSE SubSeq(seg, inSlice.at, inSlice.end - 1)
        afterDate == sliceStr(afterSex, indexOf(afterSex, dateStr) + Len(dateStr),
                              Len(afterSex))
        age == AGE_RE(afterDate)
        breedRaw == IF sexMatch.found /\ dateMatch.found
                    THEN norm(sliceStr(afterSex, 0, indexOf(afterSex, dateStr)))
                    ELSE IF sexMatch.found THEN norm(afterSex)
                    ELSE <<>>
        passMatch == PASS_RE(seg)
    IN  [row_index |-> Num(NumberJS(idx).repr),
         tag_no |-> Str(tag),
         sex |-> IF sexMatch.found
                 THEN normalizeSex(Str(SubSeq(seg, sexMatch.at, sexMatch.end - 1)))
                 ELSE Null,
         breed |-> IF breedRaw # <<>> THEN Str(breedRaw) ELSE Null,
         birth_date |-> IF dateMatch.found THEN toISO(Str(dateStr)) ELSE Null,
         age_months |-> IF dateMatch.found /\ age # <<>> THEN Num(NumberJS(age).repr)
                        ELSE Null,
         passport |-> IF passMatch.found
                      THEN Str(SubSeq(seg, passMatch.at, passMatch.end - 1))
                      ELSE Null]

\* whether the words of ws, with \s* between two of them, are somewhere in s from
\* the place from on
HasWords(s, from, ws) ==
    \E p \in from..Len(s) :
        Lit(s, Rep(s, Lit(s, {p}, ws[1]), "\\s", 0, -1), ws[2]) # {}

\* text.match(/Eil\.\s*Nr\.[\s\S]*?Gimimo\s*data/i): the index of the match from 0,
\* -1 for none
headerStart(text) ==
    LET at == {p \in 1..Len(text) :
                  \E e \in Lit(text, Rep(text, Lit(text, {p}, <<"e", "i", "l", ".">>), "\\s",
                      0, -1), <<"n", "r", ".">>) :
                      HasWords(text, e, <<<<"g", "i", "m", "i", "m", "o">>, <<"d", "a", "t",
                          "a">>>>)}
    IN  IF at = {} THEN -1 ELSE (CHOOSE p \in at : \A q \in at : p <= q) - 1

\* allLines.findIndex(...) !== -1: a line has the three column titles
hasHeaderLine(text) ==
    \E l \in {norm(x) : x \in {Split(text, "\n")[i] : i \in 1..Len(Split(text, "\n"))}} :
        /\ HasWords(l, 1, <<<<"e", "i", "l", ".">>, <<"n", "r", ".">>>>)
        /\ includes(toLowerCase(l), <<"r", "u_macron", "s_caron", "i",
            "s">>) \/ includes(toLowerCase(l), <<"r", "u", "s", "i", "s">>)
        /\ HasWords(l, 1, <<<<"g", "i", "m", "i", "m", "o">>, <<"d", "a", "t", "a">>>>)

\* rows.filter((r) => !seen.has(r.tag_no) && seen.add(r.tag_no))
uniqueByTag(rows) ==
    LET First(i) == \A j \in 1..(i - 1) : rows[j].tag_no # rows[i].tag_no
        at == SelectSeq([i \in 1..Len(rows) |-> i], First)
    IN  [n \in 1..Len(at) |-> rows[at[n]]]

\* part_002: the rows of the text and whether the header of the table was found
parseAnimalsFromText(text) ==
    LET Rows(body, segments) ==
            [i \in 1..Len(segments) |->
                animalRow(segments[i].idx, segments[i].tag,
                          sliceStr(body, segments[i].start - 1,
                                   IF i < Len(segments) THEN segments[i + 1].start - 1
                                   ELSE Len(body)))]
        Body(body) ==
            CHOOSE r \in {Rows(body, segments) : segments \in {headsFrom(body, 1)}} : TRUE
        From(startIdx) ==
            IF startIdx = -1 \/ ~hasHeaderLine(text)
            THEN [rows |-> <<>>, foundHeader |-> FALSE]
            ELSE [rows |-> CHOOSE u \in {uniqueByTag(Body(body)) :
                                            body \in {sliceStr(text, startIdx,
                                                Len(text))}} : TRUE,
                  foundHeader |-> TRUE]
    IN  CHOOSE r \in {From(startIdx) : startIdx \in {headerStart(text)}} : TRUE

\* res.status(200).json({ count: rows.length, animals: rows, debug })
animalsResponse(text) ==
    LET Response(parsed) ==
            [status |-> 200, count |-> Len(parsed.rows), animals |-> parsed.rows,
             foundHeader |-> parsed.foundHeader]
    IN  CHOOSE r \in {Response(parsed) : parsed \in {parseAnimalsFromText(text)}} : TRUE

\* the texts of the animal lists: the line of the column titles and rows, a row
\* being a head and the text of its fields
A_Titles == <<"E", "i", "l", ".", " ", "N", "r", ".", " ", "R", "u", "s", "i", "s", " ", "G",
    "i", "m", "i", "m", "o", " ", "d", "a", "t", "a">>
A_Head1 == <<"1", " ", "G", "a", "l", "v", "i", "j", "a", "i", " ", "L", "T", "1", "1">>
A_Head2 == <<"2", "G", "a", "l", "v", "i", "j", "a", "i", " ", "D", "E", "2", "2">>
\* all the fields; the sex with the dotted e before a blank; no sex and no age; no
\* date; the date before the sex
A_Full == <<" ", "K", "a", "r", "v", "e", " ", "H", "o", "l", " ", "2", "0", "2", "0", "-",
    "0", "1", "-", "0", "2", " ", "1", "4", " ", "A", "F", "-", "1">>
A_Dotted == <<" ", "K", "a", "r", "v", "e_dot", " ", "H", "o", "l", " ", "0", "2", ".", "0",
    "1", ".", "2", "0", "2", "0", " ", "1", "4">>
A_NoSexNoAge == <<" ", "H", "o", "l", " ", "2", "0", "2", "0", "-", "0", "1", "-", "0", "2">>
A_NoDate == <<" ", "B", "u", "l", "i", "u", "s", " ", "H", "o", "l">>
A_DateFirst == <<" ", "2", "0", "2", "0", "-", "0", "1", "-", "0", "2", " ", "T", "e", "l",
    "y", "c", "i", "a", " ", "H", "o", "l">>

AnimalRowPool ==
    {h \o f : h \in {A_Head1, A_Head2},
              f \in {A_Full, A_Dotted, A_NoSexNoAge, A_NoDate, A_DateFirst}}

MaxAnimalRows == 2

AnimalTextPool ==
    {JoinLines(ls) : ls \in SeqsUpTo(AnimalRowPool, MaxAnimalRows)}
    \cup {JoinLines(<<A_Titles>> \o ls) : ls \in SeqsUpTo(AnimalRowPool, MaxAnimalRows)}

InitAnimals ==
    /\ env = <<>> /\ perm = "rw" /\ snapshotFile = NoFile
    /\ calls = [c \in Slots |-> IdleCall] /\ lastWrite = NoHeaders
    /\ \E text \in AnimalTextPool :
           probe = [fn |-> "animals", arg |-> text, res |-> <<>>, done |-> FALSE]

\* the handler of part_002 from the parsed text on: it keeps nothing between two
\* calls
handlerAnimals ==
    /\ probe.fn = "animals" /\ ~probe.done
    /\ probe' = [probe EXCEPT !.res = animalsResponse(probe.arg), !.done = TRUE]
    /\ UNCHANGED <<env, perm, snapshotFile, calls, lastWrite>>

SpecAnimals == InitAnimals /\ [][handlerAnimals]_vars


\* the call read a text that has the line of the column titles
AnimalsRan == probe.fn = "animals" /\ probe.done /\ probe.res.foundHeader

\* the rows of the text, one per line after the titles, as [tag, fields], and
\* those of them that are the first with their tag
AnimalLines(text) ==
    LET ls == Tail(Split(text, "\n"))
    IN  [i \in 1..Len(ls) |->
            CHOOSE r \in {[tag |-> SubSeq(h, Len(h) - 3, Len(h)), fields |-> f] :
                             h \in {A_Head1, A_Head2},
                             f \in {A_Full, A_Dotted, A_NoSexNoAge, A_NoDate, A_DateFirst}} :
                \E h \in {A_Head1, A_Head2} :
                    SubSeq(h, Len(h) - 3, Len(h)) = r.tag /\ ls[i] = h \o r.fields]

FirstPerTag(rows) ==
    LET First(i) == \A j \in 1..(i - 1) : rows[j].tag # rows[i].tag
        at == SelectSeq([i \in 1..Len(rows) |-> i], First)
    IN  [n \in 1..Len(at) |-> rows[at[n]]]

\* C27: a recognized row gives one Record whatever its fields hold (of the rows
\* with one tag the first gives it), and the Record of a row without a sex token,
\* without a date, or without the digits of the age after the date has null in
\* the field
C27_UnparsedFieldIsNull ==
    AnimalsRan =>
        LET rows == FirstPerTag(AnimalLines(probe.arg))
            out == probe.res.animals
        IN  /\ Len(out) = Len(rows)
            /\ probe.res.count = Len(rows)
            /\ \A n \in 1..Len(rows) :
                   /\ out[n].tag_no = Str(rows[n].tag)
                   /\ rows[n].fields = A_NoSexNoAge =>
                          out[n].sex = Null /\ out[n].age_months = Null
                   /\ rows[n].fields = A_NoDate =>
                          out[n].birth_date = Null /\ out[n].age_months = Null
                   /\ rows[n].fields = A_Full =>
                          /\ out[n].sex # Null /\ out[n].birth_date # Null
                          /\ out[n].age_months = Num(<<"1", "4">>)


\* a totals line: a line with "viso" (so with "is viso"), "suma" or "total", in
\* any case
TotalsLine(s) ==
    \/ includes(toLowerCase(s), <<"v", "i", "s", "o">>)
    \/ includes(toLowerCase(s), <<"s", "u", "m", "a">>)
    \/ includes(toLowerCase(s), <<"t", "o", "t", "a", "l">>)

\* C28: the parsing of the invoice lines ends at the first totals line: the items
\* are the lines before it that a pattern matches, in their order, so no line at
\* or after it gives an item, and the items are numbered 1, 2, ... in this order
C28_StopsAtTotals ==
    InvoiceRan =>
        LET ver == probe.fn
            ls == linesOf(probe.arg)
            totals == {i \in 1..Len(ls) : TotalsLine(ls[i])}
            before == IF totals = {} THEN ls
                      ELSE SubSeq(ls, 1, (CHOOSE i \in totals : \A j \in totals : i <= j) - 1)
            Some(l) == reFull(ver, l) \/ (IF ver = "p1" THEN reMinimal(l)
                                          ELSE reFour(l) \/ reMin(l))
            items == probe.res.lines
        IN  /\ [n \in 1..Len(items) |-> items[n].raw] = SelectSeq(before, Some)
            /\ \A n \in 1..Len(items) : items[n].line_no = n

-----------------------------------------------------------------------------
(* The snapshot written for a header-bearing document, read back for a        *)
(* headerless one                                                             *)

\* a call that took its first row as header, answered 200, and whose list is the
\* last one written to the snapshot file
HeaderSaved(c) == HeaderOk(c) /\ lastWrite = SomeHeaders(calls[c].resp.columns)

\* the step in which slot d takes a headerless document of the family ver and answers
HeaderlessStep(d, ver) ==
    /\ calls[d].pc = "idle"
    /\ calls'[d].pc = "done"
    /\ calls'[d].req.ver = ver
    /\ calls'[d].resp.status = 200
    /\ ~calls'[d].hasHeader

\* C29: when a call has answered for a document with detected header and has written
\* its list to the snapshot, and the next call to start takes a headerless document of
\* the same family with no write in between, the names resolved for the headerless
\* document are exactly the columns returned for the header-bearing one
C29_SnapshotRoundTrip ==
    [][\A c \in Slots : \A d \in Slots \ {c} :
           (HeaderSaved(c) /\ HeaderlessStep(d, calls[c].req.ver))
               => calls'[d].resp.columns = calls[c].resp.columns]_vars

\* C29 for the family of ingest-gea.js alone, which trims the loaded names and does
\* not disambiguate them
C29_SnapshotRoundTripGea ==
    [][\A c \in Slots : \A d \in Slots \ {c} :
           (HeaderSaved(c) /\ calls[c].req.ver = "gea" /\ HeaderlessStep(d, "gea"))
               => calls'[d].resp.columns = calls[c].resp.columns]_vars

-----------------------------------------------------------------------------
(* Rows shared by two sections (extract-automatic-file.js) *)

\* the indices from 0 of the rows from a to b - 1 that are not entirely empty: the
\* rows of which FullRowsBetween(rows, a, b, cols) makes the Records
FullIndicesBetween(rows, a, b) ==
    {n \in 0..(Len(rows) - 1) :
        /\ a <= n /\ n < b
        /\ \E i \in 1..Len(rows[n + 1]) :
               rows[n + 1][i] # Null /\ trim(rows[n + 1][i].s) # <<>>}

\* C30: when the three markers are found, at whatever positions and in whatever
\* order, the Records of each section stem from the rows between its bounds, and no
\* row of the sheet gives a Record to more than one section
C30_SectionsDisjoint ==
    (SectionsRan /\ probe.res.status = 200) =>
        LET rows == probe.arg.rows
            i == probe.res.markers
            at2 == IF probe.res.at2_schema = "WITH_D" THEN AT2_COLS_WITH_D
                   ELSE AT2_COLS_NO_D
            from1 == FullIndicesBetween(rows, i[1] + 1, i[2])
            from2 == FullIndicesBetween(rows, i[2] + 1, i[3])
            from3 == FullIndicesBetween(rows, i[3] + 1, Len(rows))
        IN  /\ probe.res.ataskaita1 = FullRowsBetween(rows, i[1] + 1, i[2], AT1_COLS)
            /\ probe.res.ataskaita2 = FullRowsBetween(rows, i[2] + 1, i[3], at2)
            /\ probe.res.ataskaita3 = FullRowsBetween(rows, i[3] + 1, Len(rows), AT3_COLS)
            /\ Len(probe.res.ataskaita1) = Cardinality(from1)
            /\ Len(probe.res.ataskaita2) = Cardinality(from2)
            /\ Len(probe.res.ataskaita3) = Cardinality(from3)
            /\ from1 \cap from2 = {}
            /\ from1 \cap from3 = {}
            /\ from2 \cap from3 = {}

====
